---- MODULE Spec2Model ----
(***************************************************************************)
(* Versioned Patient store of FHIR_server_coding_challenge/server:         *)
(* Database::{create,get,update}_patient (database.rs), the PATCH handler  *)
(* (handlers.rs) and the merge of an incoming Patient onto the stored one. *)
(***************************************************************************)
EXTENDS Integers, Sequences, FiniteSets, TLC

(***************************************************************************)
(* Bounds of the model.                                                    *)
(***************************************************************************)
\* requests (create/get/update/patch) handled in one behaviour
MaxCalls == 2
\* longest name list drawn as an input of the merge
MaxNames == 2
\* largest _count and _offset drawn as parameters of a search
MaxCount == 2
\* requests (create/update/history) handled in one behaviour of SpecHistory
MaxHistoryCalls == 5

(***************************************************************************)
(* Option<T>: None is the empty sequence, Some(x) the one-element one.     *)
(***************************************************************************)
None == <<>>
Some(x) == <<x>>
is_some(o) == Len(o) = 1
is_none(o) == Len(o) = 0
unwrap(o) == o[1]
min(a, b) == IF a < b THEN a ELSE b
unwrap_or(o, d) == IF is_some(o) THEN unwrap(o) ELSE d

(***************************************************************************)
(* serde_json::Value as a tagged value; Map<String, Value> as a function   *)
(* from keys to values.                                                    *)
(***************************************************************************)
Null == [null |-> TRUE]
Str(s) == [str |-> s]
Num(n) == [num |-> n]
Arr(a) == [arr |-> a]
Obj(o) == [obj |-> o]
IsNull(v) == DOMAIN v = {"null"}
IsStr(v) == DOMAIN v = {"str"}
IsNum(v) == DOMAIN v = {"num"}
IsArr(v) == DOMAIN v = {"arr"}
IsObj(v) == DOMAIN v = {"obj"}

EmptyMap == [k \in {} |-> Null]
MapInsert(m, k, v) == [x \in (DOMAIN m) \cup {k} |-> IF x = k THEN v ELSE m[x]]
MapRemove(m, k) == [x \in (DOMAIN m) \ {k} |-> m[x]]
MapWithout(m, ks) == [x \in (DOMAIN m) \ ks |-> m[x]]
\* insert(k, v) only when the Option o is Some: skip_serializing_if = "Option::is_none"
MapInsertSome(m, k, o) == IF is_some(o) THEN MapInsert(m, k, unwrap(o)) ELSE m

\* Result<T, E>
Ok(x) == [ok |-> x]
Err(e) == [err |-> e]
IsOk(r) == DOMAIN r = {"ok"}
IsErr(r) == DOMAIN r = {"err"}

\* Vec<T>: a sequence held as a tuple; s with element i replaced by x.
SeqMap(Op(_), s) == [i \in 1..Len(s) |-> Op(s[i])] \o <<>>
SeqSet(s, i, x) == SubSeq(s, 1, i - 1) \o <<x>> \o SubSeq(s, i + 1, Len(s))

(***************************************************************************)
(* models.rs: the typed structs and their serde (de)serialisation.         *)
(*   HumanName = [family, given, text : Option; extra : Map]               *)
(*   Meta      = [version_id : Option<String>, last_updated : Option<ts>]  *)
(*   Patient   = [id, resource_type, meta, name, birth_date, gender,       *)
(*                extra]                                                   *)
(***************************************************************************)
HumanNameFields == {"family", "given", "text"}
PatientFields == {"id", "resourceType", "meta", "name", "birthDate", "gender"}

\* chrono::DateTime<Utc> is serialised as a string; a timestamp is the value of
\* the database clock, and only strings of that shape parse back.
\* Every request runs at most two write statements.
Timestamps == 0..(2 * (MaxCalls + MaxHistoryCalls) + 2)
FormatTs(t) == "T" \o ToString(t)
ParseTs(s) ==
    IF \E t \in Timestamps : FormatTs(t) = s
    THEN Some(CHOOSE t \in Timestamps : FormatTs(t) = s)
    ELSE None

\* Deserialisation of an Option<String> field: absent or null is None, a string
\* is Some, anything else is an error.
OptStrField(m, k) ==
    IF k \notin DOMAIN m \/ IsNull(m[k]) THEN Ok(None)
    ELSE IF IsStr(m[k]) THEN Ok(Some(m[k].str))
    ELSE Err("invalid type")

\* Option<Vec<String>>
OptStrVecField(m, k) ==
    IF k \notin DOMAIN m \/ IsNull(m[k]) THEN Ok(None)
    ELSE IF IsArr(m[k]) /\ \A i \in 1..Len(m[k].arr) : IsStr(m[k].arr[i])
    THEN Ok(Some(SeqMap(LAMBDA e : e.str, m[k].arr)))
    ELSE Err("invalid type")

HumanNameToValue(n) ==
    LET m0 == n.extra
        m1 == MapInsertSome(m0, "family", IF is_some(n.family) THEN Some(Str(unwrap(n.family))) ELSE None)
        m2 == MapInsertSome(m1, "given",
                  IF is_some(n.given)
                  THEN Some(Arr(SeqMap(Str, unwrap(n.given))))
                  ELSE None)
        m3 == MapInsertSome(m2, "text", IF is_some(n.text) THEN Some(Str(unwrap(n.text))) ELSE None)
    IN  Obj(m3)

HumanNameFromValue(v) ==
    IF ~IsObj(v) THEN Err("invalid type")
    ELSE LET m == v.obj
             family == OptStrField(m, "family")
             given == OptStrVecField(m, "given")
             text == OptStrField(m, "text")
         IN  IF IsErr(family) \/ IsErr(given) \/ IsErr(text) THEN Err("invalid type")
             ELSE Ok([family |-> family.ok, given |-> given.ok, text |-> text.ok,
                      extra |-> MapWithout(m, HumanNameFields)])

MetaToValue(meta) ==
    LET m1 == MapInsertSome(EmptyMap, "versionId",
                  IF is_some(meta.version_id) THEN Some(Str(unwrap(meta.version_id))) ELSE None)
        m2 == MapInsertSome(m1, "lastUpdated",
                  IF is_some(meta.last_updated)
                  THEN Some(Str(FormatTs(unwrap(meta.last_updated)))) ELSE None)
    IN  Obj(m2)

MetaFromValue(v) ==
    IF ~IsObj(v) THEN Err("invalid type")
    ELSE LET m == v.obj
             version_id == OptStrField(m, "versionId")
             lu == OptStrField(m, "lastUpdated")
         IN  IF IsErr(version_id) \/ IsErr(lu) THEN Err("invalid type")
             ELSE IF is_some(lu.ok) /\ is_none(ParseTs(unwrap(lu.ok))) THEN Err("invalid date")
             ELSE Ok([version_id |-> version_id.ok,
                      last_updated |-> IF is_some(lu.ok) THEN ParseTs(unwrap(lu.ok)) ELSE None])

\* serde_json::to_value(&patient): None fields are skipped, extra is flattened.
PatientToValue(p) ==
    LET m0 == p.extra
        m1 == MapInsertSome(m0, "id", IF is_some(p.id) THEN Some(Str(unwrap(p.id))) ELSE None)
        m2 == MapInsert(m1, "resourceType", Str(p.resource_type))
        m3 == MapInsertSome(m2, "meta", IF is_some(p.meta) THEN Some(MetaToValue(unwrap(p.meta))) ELSE None)
        m4 == MapInsertSome(m3, "name",
                  IF is_some(p.name)
                  THEN Some(Arr(SeqMap(HumanNameToValue, unwrap(p.name))))
                  ELSE None)
        m5 == MapInsertSome(m4, "birthDate", IF is_some(p.birth_date) THEN Some(Str(unwrap(p.birth_date))) ELSE None)
        m6 == MapInsertSome(m5, "gender", IF is_some(p.gender) THEN Some(Str(unwrap(p.gender))) ELSE None)
    IN  Obj(m6)

\* serde_json::from_value::<Patient>(value): resourceType is required, the five
\* other fields are optional, every other key goes to extra.
PatientFromValue(v) ==
    IF ~IsObj(v) THEN Err("invalid type")
    ELSE LET m == v.obj
             id == OptStrField(m, "id")
             birth_date == OptStrField(m, "birthDate")
             gender == OptStrField(m, "gender")
             meta == IF "meta" \notin DOMAIN m \/ IsNull(m["meta"]) THEN Ok(None)
                     ELSE LET r == MetaFromValue(m["meta"])
                          IN  IF IsOk(r) THEN Ok(Some(r.ok)) ELSE r
             name == IF "name" \notin DOMAIN m \/ IsNull(m["name"]) THEN Ok(None)
                     ELSE IF ~IsArr(m["name"]) THEN Err("invalid type")
                     ELSE IF \E i \in 1..Len(m["name"].arr) : IsErr(HumanNameFromValue(m["name"].arr[i]))
                     THEN Err("invalid type")
                     ELSE Ok(Some(SeqMap(LAMBDA e : HumanNameFromValue(e).ok, m["name"].arr)))
         IN  IF "resourceType" \notin DOMAIN m \/ ~IsStr(m["resourceType"]) THEN Err("missing field")
             ELSE IF IsErr(id) \/ IsErr(birth_date) \/ IsErr(gender) \/ IsErr(meta) \/ IsErr(name)
             THEN Err("invalid type")
             ELSE Ok([id |-> id.ok, resource_type |-> m["resourceType"].str, meta |-> meta.ok,
                      name |-> name.ok, birth_date |-> birth_date.ok, gender |-> gender.ok,
                      extra |-> MapWithout(m, PatientFields)])

(***************************************************************************)
(* database.rs, update_patient: the merge of the incoming Patient onto the *)
(* existing one.                                                           *)
(***************************************************************************)
\* extract_use: the `use` of a name, kept in its flattened extra map; only a
\* string value counts.
extract_use(name) ==
    IF "use" \in DOMAIN name.extra /\ IsStr(name.extra["use"])
    THEN Some(name.extra["use"].str)
    ELSE None

\* index_by_use.entry(u).or_insert(idx), for idx = i .. len: the first
\* occurrence of each `use` wins.
RECURSIVE index_by_use(_, _, _)
index_by_use(existing_list, i, index) ==
    IF i > Len(existing_list) THEN index
    ELSE LET u == extract_use(existing_list[i])
         IN  index_by_use(existing_list, i + 1,
                 IF is_some(u) /\ unwrap(u) \notin DOMAIN index
                 THEN MapInsert(index, unwrap(u), i)
                 ELSE index)

\* for new_name in incoming_list { replace at index_by_use[use], or push }
RECURSIVE merge_loop(_, _, _, _)
merge_loop(existing_list, index, incoming_list, j) ==
    IF j > Len(incoming_list) THEN existing_list
    ELSE LET new_name == incoming_list[j]
             u == extract_use(new_name)
         IN  IF is_some(u) /\ unwrap(u) \in DOMAIN index
             THEN merge_loop(SeqSet(existing_list, index[unwrap(u)], new_name),
                             index, incoming_list, j + 1)
             ELSE merge_loop(Append(existing_list, new_name), index, incoming_list, j + 1)

\* Mutation: every incoming name is pushed, none replaces an existing one.
merge_names_append(existing, incoming) ==
    IF is_none(incoming) THEN existing
    ELSE IF is_none(existing) THEN incoming
    ELSE Some(unwrap(existing) \o unwrap(incoming))

\* Mutation: the incoming list replaces the existing one.
merge_names_replace(existing, incoming) ==
    IF is_none(incoming) THEN existing ELSE incoming

\* Mutation: names are matched by position.
merge_names_by_position(existing, incoming) ==
    IF is_none(incoming) THEN existing
    ELSE IF is_none(existing) THEN incoming
    ELSE Some(unwrap(incoming) \o
              SubSeq(unwrap(existing), Len(unwrap(incoming)) + 1, Len(unwrap(existing))))

merge_names(existing, incoming) ==
    IF is_none(incoming) THEN existing
    ELSE IF is_none(existing) THEN incoming
    ELSE Some(merge_loop(unwrap(existing),
                         index_by_use(unwrap(existing), 1, EmptyMap),
                         unwrap(incoming), 1))

\* Mutation: the incoming field is stored as it is, absent or not.
merge_scalar_overwrite(existing, incoming) == incoming

merge_scalar(existing, incoming) == IF is_some(incoming) THEN incoming ELSE existing

\* Mutation: objects under the same key are merged member by member.
merge_extra_deep(existing, incoming) ==
    [k \in (DOMAIN existing) \cup (DOMAIN incoming) |->
        IF k \notin DOMAIN incoming THEN existing[k]
        ELSE IF k \in DOMAIN existing /\ IsObj(existing[k]) /\ IsObj(incoming[k])
        THEN Obj([m \in (DOMAIN existing[k].obj) \cup (DOMAIN incoming[k].obj) |->
                    IF m \in DOMAIN incoming[k].obj THEN incoming[k].obj[m]
                    ELSE existing[k].obj[m]])
        ELSE incoming[k]]

\* for (key, value) in patient.extra { merged_extra.insert(key, value) }
merge_extra(existing, incoming) ==
    [k \in (DOMAIN existing) \cup (DOMAIN incoming) |->
        IF k \in DOMAIN incoming THEN incoming[k] ELSE existing[k]]

\* Mutation: the id of the incoming body is kept when it has one.
merged_patient_body_id(id, existing, patient) ==
    [id |-> IF is_some(patient.id) THEN patient.id ELSE Some(id),
     resource_type |-> "Patient",
     meta |-> None,
     name |-> merge_names(existing.name, patient.name),
     gender |-> merge_scalar(existing.gender, patient.gender),
     birth_date |-> merge_scalar(existing.birth_date, patient.birth_date),
     extra |-> merge_extra(existing.extra, patient.extra)]

merged_patient(id, existing, patient) ==
    [id |-> Some(id),
     resource_type |-> "Patient",
     meta |-> None,
     name |-> merge_names(existing.name, patient.name),
     gender |-> merge_scalar(existing.gender, patient.gender),
     birth_date |-> merge_scalar(existing.birth_date, patient.birth_date),
     extra |-> merge_extra(existing.extra, patient.extra)]

(***************************************************************************)
(* Inputs: the bodies and identifiers the callers send.                    *)
(***************************************************************************)
Bool(b) == [bool |-> b]

\* Uuid::parse_str succeeds exactly on the identifiers of Ids.
Ids == {"a", "b"}
BadId == "not-a-uuid"
IsUuid(id) == id \in Ids

NameOfficial ==
    [family |-> Some("Smith"), given |-> Some(<<"Jane">>), text |-> None,
     extra |-> [use |-> Str("official")]]
NameOfficialAnn ==
    [family |-> Some("Smith"), given |-> Some(<<"Jane", "Ann">>), text |-> None,
     extra |-> [use |-> Str("official")]]
NameUsual ==
    [family |-> Some("Jones"), given |-> None, text |-> None,
     extra |-> [use |-> Str("usual")]]
NameNoUse ==
    [family |-> None, given |-> None, text |-> Some("Jane Smith"), extra |-> EmptyMap]
NameEntries == {NameOfficial, NameOfficialAnn, NameUsual, NameNoUse}

NameLists == UNION {[1..n -> NameEntries] : n \in 0..MaxNames}

ExtraNested == [address |-> Obj([city |-> Str("Berlin"), line |-> Str("Main")])]
ExtraShallow == [address |-> Obj([city |-> Str("Bonn")]), active |-> Bool(TRUE)]

NewPatient(name, gender, birth_date, extra) ==
    [id |-> None, resource_type |-> "Patient", meta |-> None, name |-> name,
     gender |-> gender, birth_date |-> birth_date, extra |-> extra]

\* gender, birthDate and extension bag of the bodies given to the merge
Profiles ==
    {<<None, None, EmptyMap>>,
     <<Some("male"), None, EmptyMap>>,
     <<Some("female"), Some("1985-05-15"), ExtraNested>>,
     <<None, Some("1990-01-01"), ExtraShallow>>}

MergeInputs ==
    {NewPatient(n, pr[1], pr[2], pr[3]) :
        n \in {None} \cup {Some(l) : l \in NameLists}, pr \in Profiles}

(***************************************************************************)
(* json_patch::patch (RFC 6902) over a Value, as called by patch_patient.  *)
(* A path is the sequence of reference tokens of a JSON pointer.           *)
(***************************************************************************)
\* An array index token: the decimal form of 0 .. max.
ParseIndex(tok, max) ==
    IF \E i \in 0..max : ToString(i) = tok
    THEN Some(CHOOSE i \in 0..max : ToString(i) = tok)
    ELSE None

SeqInsertAt(s, i, x) == SubSeq(s, 1, i) \o <<x>> \o SubSeq(s, i + 1, Len(s))
SeqRemoveAt(s, i) == SubSeq(s, 1, i) \o SubSeq(s, i + 2, Len(s))

\* The child of v named by one token, if any.
PtrChild(v, tok) ==
    IF IsObj(v) THEN (IF tok \in DOMAIN v.obj THEN Some(v.obj[tok]) ELSE None)
    ELSE IF IsArr(v) /\ Len(v.arr) > 0
    THEN LET i == ParseIndex(tok, Len(v.arr) - 1)
         IN  IF is_some(i) THEN Some(v.arr[unwrap(i) + 1]) ELSE None
    ELSE None

\* v with its child tok replaced by c (the child exists).
PtrSetChild(v, tok, c) ==
    IF IsObj(v) THEN Obj(MapInsert(v.obj, tok, c))
    ELSE Arr(SeqSet(v.arr, unwrap(ParseIndex(tok, Len(v.arr) - 1)) + 1, c))

RECURSIVE PtrGet(_, _)
PtrGet(v, path) ==
    IF Len(path) = 0 THEN Some(v)
    ELSE LET c == PtrChild(v, Head(path))
         IN  IF is_some(c) THEN PtrGet(unwrap(c), Tail(path)) ELSE None

\* add / remove / replace of the member tok of the container v
PtrLeaf(v, tok, kind, val) ==
    IF IsObj(v)
    THEN CASE kind = "add" -> Ok(Obj(MapInsert(v.obj, tok, val)))
           [] kind = "remove" ->
                IF tok \in DOMAIN v.obj THEN Ok(Obj(MapRemove(v.obj, tok))) ELSE Err("invalid pointer")
           [] kind = "replace" ->
                IF tok \in DOMAIN v.obj THEN Ok(Obj(MapInsert(v.obj, tok, val))) ELSE Err("invalid pointer")
    ELSE IF IsArr(v)
    THEN LET i == ParseIndex(tok, Len(v.arr))
         IN  CASE kind = "add" ->
                    IF tok = "-" THEN Ok(Arr(Append(v.arr, val)))
                    ELSE IF is_some(i) THEN Ok(Arr(SeqInsertAt(v.arr, unwrap(i), val)))
                    ELSE Err("invalid pointer")
               [] kind = "remove" ->
                    IF is_some(i) /\ unwrap(i) < Len(v.arr)
                    THEN Ok(Arr(SeqRemoveAt(v.arr, unwrap(i)))) ELSE Err("invalid pointer")
               [] kind = "replace" ->
                    IF is_some(i) /\ unwrap(i) < Len(v.arr)
                    THEN Ok(Arr(SeqSet(v.arr, unwrap(i) + 1, val))) ELSE Err("invalid pointer")
    ELSE Err("invalid pointer")

RECURSIVE PtrApply(_, _, _, _)
PtrApply(v, path, kind, val) ==
    IF Len(path) = 0
    THEN (IF kind = "remove" THEN Err("invalid pointer") ELSE Ok(val))
    ELSE IF Len(path) = 1 THEN PtrLeaf(v, Head(path), kind, val)
    ELSE LET c == PtrChild(v, Head(path))
         IN  IF is_none(c) THEN Err("invalid pointer")
             ELSE LET r == PtrApply(unwrap(c), Tail(path), kind, val)
                  IN  IF IsErr(r) THEN r ELSE Ok(PtrSetChild(v, Head(path), r.ok))

IsPrefix(s, t) == Len(s) <= Len(t) /\ SubSeq(t, 1, Len(s)) = s

\* One PatchOperation: Add, Remove, Replace, Move, Copy or Test.
apply_op(doc, o) ==
    CASE o.op \in {"add", "replace"} -> PtrApply(doc, o.path, o.op, o.value)
      [] o.op = "remove" -> PtrApply(doc, o.path, "remove", Null)
      [] o.op = "test" ->
            IF PtrGet(doc, o.path) = Some(o.value) THEN Ok(doc) ELSE Err("test failed")
      [] o.op = "copy" ->
            LET src == PtrGet(doc, o.from)
            IN  IF is_none(src) THEN Err("invalid from pointer")
                ELSE PtrApply(doc, o.path, "add", unwrap(src))
      [] o.op = "move" ->
            LET src == PtrGet(doc, o.from)
            IN  IF is_none(src) THEN Err("invalid from pointer")
                ELSE IF o.from # o.path /\ IsPrefix(o.from, o.path)
                THEN Err("cannot move inside itself")
                ELSE PtrApply(PtrApply(doc, o.from, "remove", Null).ok, o.path, "add", unwrap(src))

\* The operations in order; the first failure is the result of the whole patch.
RECURSIVE json_patch(_, _, _)
json_patch(doc, ops, i) ==
    IF i > Len(ops) THEN Ok(doc)
    ELSE LET r == apply_op(doc, ops[i])
         IN  IF IsErr(r) THEN r ELSE json_patch(r.ok, ops, i + 1)

OpAdd(path, value) == [op |-> "add", path |-> path, value |-> value]
OpRemove(path) == [op |-> "remove", path |-> path]
OpReplace(path, value) == [op |-> "replace", path |-> path, value |-> value]
OpMove(from, path) == [op |-> "move", from |-> from, path |-> path]
OpCopy(from, path) == [op |-> "copy", from |-> from, path |-> path]
OpTest(path, value) == [op |-> "test", path |-> path, value |-> value]

(***************************************************************************)
(* Bodies, patches and identifiers sent by the callers of the store.       *)
(***************************************************************************)
Procs == {1, 2}

\* POST bodies; the second carries an id and a meta of its own.
CreateBodies ==
    {NewPatient(Some(<<NameOfficial>>), Some("female"), Some("1985-05-15"), EmptyMap),
     [NewPatient(Some(<<NameNoUse>>), None, None, ExtraNested) EXCEPT
        !.id = Some("a"),
        !.meta = Some([version_id |-> Some("7"), last_updated |-> None])]}

\* PUT bodies
UpdateBodies ==
    {NewPatient(None, Some("male"), None, EmptyMap),
     NewPatient(None, None, Some("1990-01-01"), EmptyMap),
     [NewPatient(Some(<<NameOfficialAnn>>), None, None, ExtraShallow) EXCEPT
        !.id = Some("b"),
        !.meta = Some([version_id |-> Some("9"), last_updated |-> None])]}

\* PATCH bodies
Patches ==
    {<<OpRemove(<<"gender">>)>>,
     <<OpReplace(<<"id">>, Str("b"))>>,
     <<OpTest(<<"gender">>, Str("female")), OpReplace(<<"gender">>, Str("other"))>>,
     <<OpAdd(<<"name", "-">>, HumanNameToValue(NameUsual))>>,
     <<OpReplace(<<"gender">>, Str("other")), OpTest(<<"gender">>, Str("female"))>>,
     <<OpAdd(<<"name", "-">>, HumanNameToValue(NameUsual)), OpReplace(<<"birthDate">>, Num(1990))>>,
     <<OpReplace(<<"resourceType">>, Str("Observation"))>>,
     <<OpReplace(<<"meta", "versionId">>, Str("9"))>>}

(***************************************************************************)
(* State.                                                                  *)
(***************************************************************************)
VARIABLES
    fhir_resources,   \* table fhir_resources: id -> [resource_data, version_id, last_updated]
    patient_history,  \* table fhir.patient_history: set of rows
    clock,            \* the database clock read by NOW()
    pc,               \* where each request handler stands
    local,            \* the local variables of each request handler
    calls,            \* number of requests started
    mh,               \* the merge applied to a pair of bodies: [pc, existing, incoming, merged]
    ext,              \* the service built on fhir_put / fhir_get: [pc, resources, response, calls]
    sh,               \* one search on a filled table: [pc, rows, params, response]
    append_errors,    \* the history INSERTs that failed: their Err is dropped by `let _ =`
    budget,           \* number of requests the clients send in this behaviour
    row_log,          \* the database log: every row version an INSERT or UPDATE of
                      \* fhir_resources has committed, as [id, version_id, resource_data]
    fo                \* one run of FileOrganizer::organize on a directory: [pc, root,
                      \* folders, entries, files_moved, files_skipped, result]

vars == <<fhir_resources, patient_history, clock, pc, local, calls, mh, ext, sh, append_errors,
          budget, row_log, fo>>
\* what the handlers of server/src never touch
harness == <<mh, ext, sh, budget, fo>>
store == <<fhir_resources, patient_history, clock, row_log>>

NoLocal == [op |-> "none"]
NoMerge == [pc |-> "off"]
NoExt == [pc |-> "off"]
NoSearch == [pc |-> "off"]
NoOrganize == [pc |-> "off"]

\* NOW(): the clock is read and advances with every write statement.
Now == clock

\* The server starts on a database that is empty or holds the record left by
\* an earlier POST of the first body (both writes of create_patient done).
StoredBody == PatientToValue(NewPatient(Some(<<NameOfficial>>), Some("female"), Some("1985-05-15"), EmptyMap))
InitialStores ==
    {[fhir_resources |-> EmptyMap, patient_history |-> {}, clock |-> 0, row_log |-> {}],
     [fhir_resources |-> [a |-> [resource_data |-> StoredBody, version_id |-> 1, last_updated |-> 0]],
      patient_history |-> {[id |-> "a", version_id |-> 1, resource |-> StoredBody, ts |-> 1,
                            status |-> "created"]},
      clock |-> 2,
      row_log |-> {[id |-> "a", version_id |-> 1, resource_data |-> StoredBody]}]}

Init ==
    /\ \E s \in InitialStores :
        /\ fhir_resources = s.fhir_resources
        /\ patient_history = s.patient_history
        /\ clock = s.clock
        /\ row_log = s.row_log
    /\ pc = [p \in Procs |-> "idle"]
    /\ local = [p \in Procs |-> NoLocal]
    /\ calls = 0
    /\ budget = MaxCalls
    /\ fo = NoOrganize
    /\ mh = NoMerge
    /\ ext = NoExt
    /\ sh = NoSearch
    /\ append_errors = {}

\* A request is taken by the first worker that is not inside a handler; which
\* worker runs a handler has no effect on what the handler does.
Free(p) == pc[p] \in {"idle", "done"}
Procs_before(p) == {q \in Procs : q < p}
Accept(p) ==
    /\ Free(p)
    /\ \A q \in Procs_before(p) : ~Free(q)
    /\ calls < budget
    /\ calls' = calls + 1

\* The handler of p returns; its response stays in local until p takes the
\* next request.
Done(p, loc, response) ==
    /\ pc' = [pc EXCEPT ![p] = "done"]
    /\ local' = [local EXCEPT ![p] = MapInsert(loc, "response", response)]

\* (StatusCode, Json<OperationOutcome>) and (StatusCode, Json<Patient>)
Outcome(status, code) == [status |-> status, code |-> code]
Success(status, patient) == [status |-> status, patient |-> patient]

WithMeta(patient, id, version_id, last_updated) ==
    [patient EXCEPT
        !.id = Some(id),
        !.meta = Some([version_id |-> Some(ToString(version_id)),
                       last_updated |-> Some(last_updated)])]

\* Mutation: the version column is read before the row's last write, the body
\* after it.
read_patient_torn(id, row) ==
    LET patient == PatientFromValue(row.resource_data)
    IN  IF IsErr(patient) THEN patient
        ELSE Ok(Some(WithMeta(patient.ok, id, row.version_id - 1, row.last_updated)))

\* The Patient built from a row of fhir_resources: id and meta come from the
\* row's columns, not from resource_data.
read_patient(id, row) ==
    LET patient == PatientFromValue(row.resource_data)
    IN  IF IsErr(patient) THEN patient
        ELSE Ok(Some(WithMeta(patient.ok, id, row.version_id, row.last_updated)))

\* Database::get_patient on the current tables.
get_patient(id) ==
    IF ~IsUuid(id) THEN Err("invalid uuid")
    ELSE IF id \notin DOMAIN fhir_resources THEN Ok(None)
    ELSE read_patient(id, fhir_resources[id])

(***************************************************************************)
(* The rows written by the SQL statements of database.rs.                  *)
(***************************************************************************)
\* INSERT INTO fhir_resources (...) VALUES ($1, 'Patient', $2, 1, NOW())
inserted_row(patient_json, now) ==
    [resource_data |-> patient_json, version_id |-> 1, last_updated |-> now]

\* Mutation: the statement adds 2 to the version.
updated_row_skip(row, patient_json, now) ==
    [resource_data |-> patient_json, version_id |-> row.version_id + 2, last_updated |-> now]

\* UPDATE fhir_resources SET resource_data = $1, version_id = version_id + 1,
\* last_updated = NOW(): the new row is computed from the row as it is stored
\* when the statement runs.
updated_row(row, patient_json, now) ==
    [resource_data |-> patient_json, version_id |-> row.version_id + 1, last_updated |-> now]

\* Mutation: an update binds the version it replaced instead of the new one.
history_row_replaced(id, version_id, patient_json, now, status) ==
    [id |-> id,
     version_id |-> IF status = "created" THEN version_id ELSE version_id - 1,
     resource |-> patient_json, ts |-> now, status |-> status]

\* the entry of the database log for a row version of fhir_resources
logged_row(id, row) ==
    [id |-> id, version_id |-> row.version_id, resource_data |-> row.resource_data]

\* Mutation: the row is filed under the version after the one written.
history_row_next_version(id, version_id, patient_json, now, status) ==
    [id |-> id, version_id |-> version_id + 1, resource |-> patient_json, ts |-> now,
     status |-> status]

\* INSERT INTO fhir.patient_history (id, version_id, resource, txid, ts, status)
history_row(id, version_id, patient_json, now, status) ==
    [id |-> id, version_id |-> version_id, resource |-> patient_json, ts |-> now,
     status |-> status]

(***************************************************************************)
(* POST /fhir/Patient: handlers::create_patient, Database::create_patient. *)
(***************************************************************************)
\* Mutation: the history INSERT runs although the INSERT of the row failed.
CreateInsertHistoryAnyway(p, body) ==
    /\ Accept(p)
    /\ LET patient == [body EXCEPT !.resource_type = "Patient"]
           patient_json == PatientToValue(patient)
           loc == [op |-> "create", patient |-> patient]
       IN  \/ \E patient_id \in Ids \ DOMAIN fhir_resources :
                LET row == inserted_row(patient_json, Now)
                IN  /\ fhir_resources' = MapInsert(fhir_resources, patient_id, row)
                    /\ clock' = clock + 1
                    /\ pc' = [pc EXCEPT ![p] = "create_history"]
                    /\ local' = [local EXCEPT ![p] =
                           [op |-> "create", patient |-> patient, id |-> patient_id,
                            patient_json |-> patient_json, version_id |-> row.version_id,
                            created_patient |->
                                WithMeta(PatientFromValue(patient_json).ok, patient_id,
                                         row.version_id, row.last_updated)]]
                    /\ row_log' = row_log \cup {logged_row(patient_id, row)}
                    /\ UNCHANGED patient_history
           \/ \E patient_id \in Ids \ DOMAIN fhir_resources :
                /\ patient_history' = patient_history \cup
                       {history_row(patient_id, 1, patient_json, Now, "created")}
                /\ clock' = clock + 1
                /\ Done(p, loc, Outcome(500, "processing"))
                /\ UNCHANGED <<fhir_resources, row_log>>
    /\ UNCHANGED <<harness, append_errors>>

\* INSERT INTO fhir_resources ... VALUES ($1, 'Patient', $2, 1, NOW()), with a
\* fresh Uuid::new_v4(); a failed statement ends the request with 500.
CreateInsert(p, body) ==
    /\ Accept(p)
    /\ LET patient == [body EXCEPT !.resource_type = "Patient"]
           patient_json == PatientToValue(patient)
           loc == [op |-> "create", patient |-> patient]
       IN  \/ \E patient_id \in Ids \ DOMAIN fhir_resources :
                LET row == inserted_row(patient_json, Now)
                IN  /\ fhir_resources' = MapInsert(fhir_resources, patient_id, row)
                    /\ clock' = clock + 1
                    /\ pc' = [pc EXCEPT ![p] = "create_history"]
                    /\ local' = [local EXCEPT ![p] =
                           [op |-> "create", patient |-> patient, id |-> patient_id,
                            patient_json |-> patient_json, version_id |-> row.version_id,
                            created_patient |->
                                WithMeta(PatientFromValue(patient_json).ok, patient_id,
                                         row.version_id, row.last_updated)]]
                    /\ row_log' = row_log \cup {logged_row(patient_id, row)}
                    /\ UNCHANGED patient_history
           \/ /\ Done(p, loc, Outcome(500, "processing"))
              /\ UNCHANGED store
    /\ UNCHANGED <<harness, append_errors>>

\* INSERT INTO fhir.patient_history ... 'created'; its error is ignored.
CreateHistory(p) ==
    /\ pc[p] = "create_history"
    /\ LET loc == local[p]
       IN  /\ \/ /\ patient_history' = patient_history \cup
                        {history_row(loc.id, loc.version_id, loc.patient_json, Now, "created")}
                 /\ clock' = clock + 1
                 /\ UNCHANGED append_errors
              \/ /\ append_errors' = append_errors \cup {<<loc.id, loc.version_id>>}
                 /\ UNCHANGED <<patient_history, clock>>
           /\ Done(p, loc, Success(201, loc.created_patient))
    /\ UNCHANGED <<fhir_resources, row_log, calls, harness>>

(***************************************************************************)
(* GET /fhir/Patient/:id: handlers::get_patient.                           *)
(***************************************************************************)
GetPatient(p, id) ==
    /\ Accept(p)
    /\ LET loc == [op |-> "get", id |-> id]
           r == get_patient(id)
       IN  \/ /\ IsOk(r) /\ is_some(r.ok)
              /\ Done(p, loc, Success(200, unwrap(r.ok)))
           \/ /\ IsOk(r) /\ is_none(r.ok)
              /\ Done(p, loc, Outcome(404, "not-found"))
           \/ Done(p, loc, Outcome(500, "processing"))
    /\ UNCHANGED <<store, harness, append_errors>>

(***************************************************************************)
(* PUT /fhir/Patient/:id: handlers::update_patient,                        *)
(* Database::update_patient.                                               *)
(***************************************************************************)
\* Mutation: an unknown id is treated as a record with an empty body.
update_get_or_empty(p, loc) ==
    LET r == get_patient(loc.id)
    IN  \/ /\ IsOk(r)
           /\ pc' = [pc EXCEPT ![p] = "update_write"]
           /\ local' = [local EXCEPT ![p] =
                  MapInsert(loc, "existing",
                            IF is_some(r.ok) THEN unwrap(r.ok)
                            ELSE NewPatient(None, None, None, EmptyMap))]
        \/ Done(p, loc, Outcome(500, "processing"))

\* Uuid::parse_str and self.get_patient(id): the read of the existing record.
update_get(p, loc) ==
    LET r == get_patient(loc.id)
    IN  \/ /\ IsOk(r) /\ is_some(r.ok)
           /\ pc' = [pc EXCEPT ![p] = "update_write"]
           /\ local' = [local EXCEPT ![p] = MapInsert(loc, "existing", unwrap(r.ok))]
        \/ /\ IsOk(r) /\ is_none(r.ok)
           /\ Done(p, loc, Outcome(404, "not-found"))
        \/ Done(p, loc, Outcome(500, "processing"))

UpdatePatient(p, id, patient) ==
    /\ Accept(p)
    /\ update_get(p, [op |-> "update", id |-> id, patient |-> patient])
    /\ UNCHANGED <<store, harness, append_errors>>

\* Mutation: a versionId carried by the incoming body is stored as it is.
update_write_body_version(loc, resources, now) ==
    LET merged == merged_patient(loc.id, loc.existing, loc.patient)
        patient_json == PatientToValue(merged)
        supplied == IF is_some(loc.patient.meta) THEN unwrap(loc.patient.meta).version_id
                    ELSE None
        row == [resource_data |-> patient_json,
                version_id |-> IF is_some(supplied)
                               THEN CHOOSE v \in 1..9 : ToString(v) = unwrap(supplied)
                               ELSE resources[loc.id].version_id + 1,
                last_updated |-> now]
    IN  [row |-> row,
         local |-> MapInsert(MapInsert(MapInsert(loc,
                       "patient_json", patient_json),
                       "version_id", row.version_id),
                       "updated_patient",
                       WithMeta(merged, loc.id, row.version_id, row.last_updated))]

\* Mutation: the new version is computed from the version that was read.
update_write_from_read(loc, resources, now) ==
    LET merged == merged_patient(loc.id, loc.existing, loc.patient)
        patient_json == PatientToValue(merged)
        read_version == CHOOSE v \in 1..(MaxCalls + 1) :
                            Some(ToString(v)) = unwrap(loc.existing.meta).version_id
        row == [resource_data |-> patient_json, version_id |-> read_version + 1,
                last_updated |-> now]
    IN  [row |-> row,
         local |-> MapInsert(MapInsert(MapInsert(loc,
                       "patient_json", patient_json),
                       "version_id", row.version_id),
                       "updated_patient",
                       WithMeta(merged, loc.id, row.version_id, row.last_updated))]

\* The merge of the incoming patient onto the one read, and the UPDATE ...
\* RETURNING version_id, last_updated on the row as it is stored now: the row
\* written and the handler's locals after the statement.
update_write(loc, resources, now) ==
    LET merged == merged_patient(loc.id, loc.existing, loc.patient)
        patient_json == PatientToValue(merged)
        row == updated_row(resources[loc.id], patient_json, now)
    IN  [row |-> row,
         local |-> MapInsert(MapInsert(MapInsert(loc,
                       "patient_json", patient_json),
                       "version_id", row.version_id),
                       "updated_patient",
                       WithMeta(merged, loc.id, row.version_id, row.last_updated))]

\* Mutation: the UPDATE has no WHERE clause and rewrites every row.
UpdateWriteAll(p) ==
    /\ pc[p] = "update_write"
    /\ LET loc == local[p]
       IN  \/ /\ loc.id \in DOMAIN fhir_resources
              /\ LET written == update_write(loc, fhir_resources, Now)
                 IN  /\ fhir_resources' =
                            [id \in DOMAIN fhir_resources |->
                                updated_row(fhir_resources[id], written.row.resource_data, Now)]
                     /\ local' = [local EXCEPT ![p] = written.local]
              /\ clock' = clock + 1
              /\ pc' = [pc EXCEPT ![p] = "update_history"]
              /\ row_log' = row_log \cup {logged_row(id, fhir_resources'[id]) :
                                             id \in DOMAIN fhir_resources}
              /\ UNCHANGED patient_history
           \/ /\ Done(p, loc, Outcome(500, "processing"))
              /\ UNCHANGED store
    /\ UNCHANGED <<calls, harness, append_errors>>

\* A failed statement ends the request with 500 and writes nothing.
UpdateWrite(p) ==
    /\ pc[p] = "update_write"
    /\ LET loc == local[p]
       IN  \/ /\ loc.id \in DOMAIN fhir_resources
              /\ LET written == update_write(loc, fhir_resources, Now)
                 IN  /\ fhir_resources' = [fhir_resources EXCEPT ![loc.id] = written.row]
                     /\ local' = [local EXCEPT ![p] = written.local]
              /\ clock' = clock + 1
              /\ pc' = [pc EXCEPT ![p] = "update_history"]
              /\ row_log' = row_log \cup {logged_row(loc.id, fhir_resources'[loc.id])}
              /\ UNCHANGED patient_history
           \/ /\ Done(p, loc, Outcome(500, "processing"))
              /\ UNCHANGED store
    /\ UNCHANGED <<calls, harness, append_errors>>

\* Mutation: the error of the history INSERT is propagated with `?`.
UpdateHistoryPropagated(p) ==
    /\ pc[p] = "update_history"
    /\ LET loc == local[p]
       IN  \/ /\ patient_history' = patient_history \cup
                     {history_row(loc.id, loc.version_id, loc.patient_json, Now, "updated")}
              /\ clock' = clock + 1
              /\ UNCHANGED append_errors
              /\ Done(p, loc, Success(200, loc.updated_patient))
           \/ /\ append_errors' = append_errors \cup {<<loc.id, loc.version_id>>}
              /\ UNCHANGED <<patient_history, clock>>
              /\ Done(p, loc, Outcome(500, "processing"))
    /\ UNCHANGED <<fhir_resources, row_log, calls, harness>>

\* INSERT INTO fhir.patient_history ... 'updated'; its error is ignored.
UpdateHistory(p) ==
    /\ pc[p] = "update_history"
    /\ LET loc == local[p]
       IN  /\ \/ /\ patient_history' = patient_history \cup
                        {history_row(loc.id, loc.version_id, loc.patient_json, Now, "updated")}
                 /\ clock' = clock + 1
                 /\ UNCHANGED append_errors
              \/ /\ append_errors' = append_errors \cup {<<loc.id, loc.version_id>>}
                 /\ UNCHANGED <<patient_history, clock>>
           /\ Done(p, loc, Success(200, loc.updated_patient))
    /\ UNCHANGED <<fhir_resources, row_log, calls, harness>>

(***************************************************************************)
(* PATCH /fhir/Patient/:id: handlers::patch_patient.                       *)
(***************************************************************************)
\* Mutation: an operation that fails is skipped and the patch goes on.
RECURSIVE json_patch_skip(_, _, _)
json_patch_skip(doc, ops, i) ==
    IF i > Len(ops) THEN Ok(doc)
    ELSE LET r == apply_op(doc, ops[i])
         IN  json_patch_skip(IF IsErr(r) THEN doc ELSE r.ok, ops, i + 1)

patch_apply_skip_failed(id, existing_patient, patch) ==
    LET patched_value == json_patch_skip(PatientToValue(existing_patient), patch, 1)
        patched_patient == PatientFromValue(patched_value.ok)
    IN  IF IsErr(patched_patient) THEN Err(Outcome(400, "invalid"))
        ELSE IF is_some(patched_patient.ok.id) /\ unwrap(patched_patient.ok.id) # id
        THEN Err(Outcome(400, "invariant"))
        ELSE IF patched_patient.ok.resource_type # "Patient"
        THEN Err(Outcome(400, "invalid"))
        ELSE Ok([patched_patient.ok EXCEPT !.id = Some(id)])

\* Mutation: the resourceType of the patched patient is not checked.
patch_apply_any_type(id, existing_patient, patch) ==
    LET patched_value == json_patch(PatientToValue(existing_patient), patch, 1)
    IN  IF IsErr(patched_value) THEN Err(Outcome(400, "processing"))
        ELSE LET patched_patient == PatientFromValue(patched_value.ok)
             IN  IF IsErr(patched_patient) THEN Err(Outcome(400, "invalid"))
                 ELSE IF is_some(patched_patient.ok.id) /\ unwrap(patched_patient.ok.id) # id
                 THEN Err(Outcome(400, "invariant"))
                 ELSE Ok([patched_patient.ok EXCEPT !.id = Some(id)])

\* Mutation: the id of the patched patient is overwritten, not checked.
patch_apply_restore_id(id, existing_patient, patch) ==
    LET patched_value == json_patch(PatientToValue(existing_patient), patch, 1)
    IN  IF IsErr(patched_value) THEN Err(Outcome(400, "processing"))
        ELSE LET patched_patient == PatientFromValue(patched_value.ok)
             IN  IF IsErr(patched_patient) THEN Err(Outcome(400, "invalid"))
                 ELSE IF patched_patient.ok.resource_type # "Patient"
                 THEN Err(Outcome(400, "invalid"))
                 ELSE Ok([patched_patient.ok EXCEPT !.id = Some(id)])

\* Steps 2 to 5 of the handler, on the patient read in step 1: the patch is
\* applied to the serialised patient, the result is read back as a Patient,
\* and its id and resourceType are checked.  Ok(patched patient) or
\* Err(response).
patch_apply(id, existing_patient, patch) ==
    LET patient_value == PatientToValue(existing_patient)
        patched_value == json_patch(patient_value, patch, 1)
    IN  IF IsErr(patched_value) THEN Err(Outcome(400, "processing"))
        ELSE LET patched_patient == PatientFromValue(patched_value.ok)
             IN  IF IsErr(patched_patient) THEN Err(Outcome(400, "invalid"))
                 ELSE IF is_some(patched_patient.ok.id) /\ unwrap(patched_patient.ok.id) # id
                 THEN Err(Outcome(400, "invariant"))
                 ELSE IF patched_patient.ok.resource_type # "Patient"
                 THEN Err(Outcome(400, "invalid"))
                 ELSE Ok([patched_patient.ok EXCEPT !.id = Some(id)])

\* Step 1, db.get_patient(&id), and the local steps 2 to 5.
PatchPatient(p, id, patch) ==
    /\ Accept(p)
    /\ LET loc == [op |-> "patch", id |-> id, patch |-> patch]
           r == get_patient(id)
       IN  \/ /\ IsOk(r) /\ is_some(r.ok)
              /\ LET patched == patch_apply(id, unwrap(r.ok), patch)
                     read == MapInsert(loc, "existing_patient", unwrap(r.ok))
                 IN  IF IsErr(patched)
                     THEN Done(p, read, patched.err)
                     ELSE /\ pc' = [pc EXCEPT ![p] = "patch_update"]
                          /\ local' = [local EXCEPT ![p] =
                                 MapInsert(read, "patient", patched.ok)]
           \/ /\ IsOk(r) /\ is_none(r.ok)
              /\ Done(p, loc, Outcome(404, "not-found"))
           \/ Done(p, loc, Outcome(500, "processing"))
    /\ UNCHANGED <<store, harness, append_errors>>

\* Step 6, db.update_patient(&id, patched_patient): its read of the record.
PatchUpdate(p) ==
    /\ pc[p] = "patch_update"
    /\ update_get(p, local[p])
    /\ UNCHANGED <<store, calls, harness, append_errors>>

Next ==
    \/ \E p \in Procs, body \in CreateBodies : CreateInsert(p, body)
    \/ \E p \in Procs : CreateHistory(p)
    \/ \E p \in Procs, id \in Ids \cup {BadId} : GetPatient(p, id)
    \/ \E p \in Procs, id \in Ids, patient \in UpdateBodies : UpdatePatient(p, id, patient)
    \/ \E p \in Procs : UpdateWrite(p)
    \/ \E p \in Procs : UpdateHistory(p)
    \/ \E p \in Procs, id \in Ids, patch \in Patches : PatchPatient(p, id, patch)
    \/ \E p \in Procs : PatchUpdate(p)

Spec == Init /\ [][Next]_vars

(***************************************************************************)
(* The merge of update_patient on its own: one stored row, one incoming    *)
(* body, and the row update_patient computes from them (read, merge,       *)
(* serialise), for every pair of bodies of MergeInputs.                    *)
(***************************************************************************)
InitMerge ==
    /\ fhir_resources = EmptyMap
    /\ patient_history = {}
    /\ row_log = {}
    /\ clock = 0
    /\ pc = [p \in Procs |-> "idle"]
    /\ local = [p \in Procs |-> NoLocal]
    /\ calls = 0
    /\ budget = MaxCalls
    /\ fo = NoOrganize
    /\ append_errors = {}
    /\ ext = NoExt
    /\ sh = NoSearch
    /\ \E e \in MergeInputs, i \in MergeInputs :
        mh = [pc |-> "ready", id |-> "a", row |-> inserted_row(PatientToValue(e), 0),
              patient |-> i]

MergeUpdate ==
    /\ mh.pc = "ready"
    /\ LET existing == unwrap(read_patient(mh.id, mh.row).ok)
           merged == merged_patient(mh.id, existing, mh.patient)
       IN  mh' = [pc |-> "merged", id |-> mh.id, existing |-> existing, patient |-> mh.patient,
                  merged |-> merged,
                  row |-> updated_row(mh.row, PatientToValue(merged), 1)]
    /\ UNCHANGED <<store, pc, local, calls, append_errors, ext, sh, budget, fo>>

NextMerge == MergeUpdate

SpecMerge == InitMerge /\ [][NextMerge]_vars

(***************************************************************************)
(* The service of coding_challenge/src on the extension functions of       *)
(* fhir-extension: POST /fhir/Patient (handlers::create_patient,           *)
(* PatientRepository::upsert, fhir_put) and GET /fhir/Patient/:id          *)
(* (handlers::get_patient, fhir_get).  ext.resources is the column         *)
(* resource_data of table fhir_resources by id.                            *)
(***************************************************************************)
\* v[k] of serde_json: Null when v has no member k
Index(v, k) == IF IsObj(v) /\ k \in DOMAIN v.obj THEN v.obj[k] ELSE Null
\* v.as_str().unwrap_or("")
as_str_or_empty(v) == IF IsStr(v) THEN v.str ELSE ""
\* v[k] = x
IndexSet(v, k, x) == Obj(MapInsert(v.obj, k, x))

\* POST bodies: two patients, each without id, with a null id, with the id of
\* a record, and with an id that is no UUID; and a resource of another type.
ExtPatients ==
    {StoredBody, PatientToValue(NewPatient(None, Some("male"), None, EmptyMap))}
ExtBodies ==
    ExtPatients
    \cup {IndexSet(b, "id", i) : b \in ExtPatients, i \in {Null, Str(BadId)} \cup {Str(id) : id \in Ids}}
    \cup {IndexSet(StoredBody, "resourceType", Str("Observation"))}

\* fhir_put: the id of the body when it is a UUID, else a new one.
fhir_put_id(patient, fresh) ==
    IF IsNull(Index(patient, "id")) THEN fresh
    ELSE IF IsUuid(as_str_or_empty(Index(patient, "id")))
    THEN as_str_or_empty(Index(patient, "id"))
    ELSE fresh

\* fhir_put: the document stored, with id and resourceType set
fhir_put_row(patient, id) ==
    IndexSet(IndexSet(patient, "id", Str(id)), "resourceType", Str("Patient"))

\* INSERT INTO fhir_resources ... ON CONFLICT (id) DO UPDATE SET resource_data
fhir_put(resources, patient, fresh) ==
    LET id == fhir_put_id(patient, fresh)
    IN  [id |-> id, resources |-> MapInsert(resources, id, fhir_put_row(patient, id))]

\* the response body of create_patient: the request body with id and meta
ExtCreated(resource, id, now) ==
    IndexSet(IndexSet(resource, "id", Str(id)), "meta",
             Obj([versionId |-> Str("1"), lastUpdated |-> Str(FormatTs(now))]))

ExtDone(resources, response) ==
    ext' = [pc |-> "done", resources |-> resources, calls |-> ext.calls + 1,
            response |-> response]

\* create_patient: 400 for another resourceType; else repo.upsert, which
\* fails and writes nothing (500), or writes; the id returned by the function
\* is then decoded as a Uuid (201) or fails to decode (500).
ExtCreatePatient(resource) ==
    /\ ext.pc \in {"idle", "done"}
    /\ ext.calls < MaxCalls
    /\ LET call == [op |-> "create", resource |-> resource]
       IN  IF Index(resource, "resourceType") # Str("Patient")
           THEN ExtDone(ext.resources, call @@ Outcome(400, "invalid"))
           ELSE \/ ExtDone(ext.resources, call @@ Outcome(500, "exception"))
                \/ \E fresh \in Ids \ DOMAIN ext.resources :
                      LET put == fhir_put(ext.resources, resource, fresh)
                      IN  \/ ExtDone(put.resources,
                                     call @@ [status |-> 201, id |-> put.id,
                                              body |-> ExtCreated(resource, put.id, ext.calls)])
                          \/ ExtDone(put.resources,
                                     call @@ [id |-> put.id] @@ Outcome(500, "exception"))
    /\ UNCHANGED <<store, pc, local, calls, mh, sh, append_errors, budget, fo>>

\* get_patient: fhir_get returns resource_data or nothing (404).
ExtGetPatient(id) ==
    /\ ext.pc \in {"idle", "done"}
    /\ ext.calls < MaxCalls
    /\ LET call == [op |-> "get", id |-> id]
       IN  \/ /\ id \in DOMAIN ext.resources
              /\ ExtDone(ext.resources, call @@ [status |-> 200, body |-> ext.resources[id]])
           \/ /\ id \notin DOMAIN ext.resources
              /\ ExtDone(ext.resources, call @@ Outcome(404, "not-found"))
           \/ ExtDone(ext.resources, call @@ Outcome(500, "exception"))
    /\ UNCHANGED <<store, pc, local, calls, mh, sh, append_errors, budget, fo>>

\* ---- GET /fhir/Patient/:id/_history of the service on the extension ----
\* ticks of the clock between the start of the service and its first request
ExtUptime == 2
\* HistoryBundle::new: an empty bundle stamped with Utc::now()
HistoryBundle_new(id, now) ==
    [resource_type |-> "Bundle", bundle_type |-> "history", id |-> id,
     meta |-> [last_updated |-> FormatTs(now)], total |-> 0, entry |-> <<>>]

\* HistoryBundle::add_entry
add_entry(bundle, entry) ==
    [resource_type |-> bundle.resource_type, bundle_type |-> bundle.bundle_type,
     id |-> bundle.id, meta |-> bundle.meta, total |-> bundle.total + 1,
     entry |-> bundle.entry \o <<entry>>]

\* the entry built from one PatientHistoryRecord
ExtHistoryEntry(id, record) ==
    [full_url |-> "Patient/" \o id \o "/Patient/" \o ToString(record.version_id),
     resource |-> IF IsObj(record.resource)
                  THEN IndexSet(record.resource, "meta",
                                Obj([versionId |-> Str(ToString(record.version_id)),
                                     lastUpdated |-> Str(FormatTs(record.timestamp))]))
                  ELSE record.resource,
     request |-> Some([method |-> record.method, url |-> "Patient/" \o id]),
     response |-> Some([status |-> "200 OK", last_modified |-> FormatTs(record.timestamp)])]

\* for record in history { bundle = bundle.add_entry(entry) }
RECURSIVE add_entries(_, _, _)
add_entries(bundle, id, history) ==
    IF Len(history) = 0 THEN bundle
    ELSE add_entries(add_entry(bundle, ExtHistoryEntry(id, Head(history))), id, Tail(history))

\* The rows fhir_get_history returns for a record: none, or the versions
\* written before the time now, newest first.
ExtHistories(id, now) ==
    {<<>>}
    \cup {<<[version_id |-> 1, resource |-> fhir_put_row(StoredBody, id), timestamp |-> t,
             method |-> "POST"]>> : t \in 0..(now - 1)}
    \cup {<<[version_id |-> 2, resource |-> fhir_put_row(StoredBody, id), timestamp |-> t,
             method |-> "PUT"],
            [version_id |-> 1, resource |-> fhir_put_row(StoredBody, id), timestamp |-> 0,
             method |-> "POST"]>> : t \in 1..(now - 1)}

\* get_patient_history: 404 when fhir_get finds no record, else the bundle of
\* the rows of fhir_get_history; 500 when a query fails.
ExtGetPatientHistory(id) ==
    /\ ext.pc \in {"idle", "done"}
    /\ ext.calls < MaxCalls
    /\ LET call == [op |-> "history", id |-> id]
           now == ext.calls + ExtUptime
       IN  \/ ExtDone(ext.resources, call @@ Outcome(500, "transient"))
           \/ /\ id \notin DOMAIN ext.resources
              /\ ExtDone(ext.resources, call @@ Outcome(404, "not-found"))
           \/ /\ id \in DOMAIN ext.resources
              /\ \/ ExtDone(ext.resources, call @@ Outcome(500, "exception"))
                 \/ \E history \in ExtHistories(id, now) :
                       ExtDone(ext.resources,
                               call @@ [status |-> 200, now |-> now, history |-> history,
                                        bundle |-> add_entries(HistoryBundle_new(id, now), id,
                                                               history)])
    /\ UNCHANGED <<store, pc, local, calls, mh, sh, append_errors, budget, fo>>

\* ---- GET /fhir/Patient of the service on the extension ----
ExtDefaultCount == 20
ExtMaxPageSize == 100

\* resource_data->'name' @> [{"family": value}]
\*   OR resource_data->'name' @> [{"given": [value]}]
name_contains(doc, value) ==
    LET name == Index(doc, "name")
    IN  /\ IsArr(name)
        /\ \E i \in 1..Len(name.arr) :
              LET family == Index(name.arr[i], "family")
                  given == Index(name.arr[i], "given")
              IN  \/ family = Str(value)
                  \/ /\ IsArr(given)
                     /\ \E j \in 1..Len(given.arr) : given.arr[j] = Str(value)

\* fhir_search: the ids of the rows that the predicate of param selects; the
\* function does not read op.
fhir_search(resources, param, value) ==
    {id \in DOMAIN resources :
        CASE param = "name" -> name_contains(resources[id], value)
          [] param = "gender" -> Index(resources[id], "gender") = Str(value)
          [] param = "birthDate" -> Index(resources[id], "birthDate") = Str(value)}

\* The query has no ORDER BY: the ids come in any order.
Orders(S) ==
    {SeqMap(LAMBDA x : x, s) :
        s \in {t \in [1..Cardinality(S) -> S] :
                  \A i, j \in 1..Cardinality(S) : t[i] = t[j] => i = j}}

\* search_by_param for a parameter of the request; nothing is searched for a
\* parameter that is not supplied
search_by_param(resources, param, value) ==
    IF is_some(value) THEN Orders(fhir_search(resources, param, unwrap(value))) ELSE {<<>>}

\* result_ids.retain(|id| ids.contains(id))
retain(result_ids, ids) ==
    SelectSeq(result_ids, LAMBDA id : \E k \in 1..Len(ids) : ids[k] = id)

\* if result_ids.is_empty() { result_ids = ids } else { retain }
narrow(result_ids, ids) == IF Len(result_ids) = 0 THEN ids ELSE retain(result_ids, ids)

\* result_ids after the three blocks of PatientRepository::search, from the
\* ids each search_by_param returned
search_result_ids(params, found) ==
    LET by_name == IF is_some(params.name) THEN found.name ELSE <<>>
        by_gender == IF is_some(params.gender) THEN narrow(by_name, found.gender)
                     ELSE by_name
    IN  IF is_some(params.birthdate) THEN narrow(by_gender, found.birthdate) ELSE by_gender

\* .skip(offset).take(count.unwrap_or(20).min(100))
skip_take(ids, offset, count) ==
    LET first == min(offset, Len(ids)) + 1
        last == min(Len(ids), offset + min(unwrap_or(count, ExtDefaultCount), ExtMaxPageSize))
    IN  IF last < first THEN <<>> ELSE SubSeq(ids, first, last)

\* the SearchBundle of the handler
SearchBundle(resources) ==
    [resource_type |-> "Bundle", bundle_type |-> "searchset", total |-> Len(resources),
     entry |-> SeqMap(LAMBDA resource : [resource |-> resource], resources)]

\* the query strings of the searches: a name that is stored and one that is
\* not, the two genders, the birth date stored; count and offset are not
\* negative
ExtSearchQueries ==
    [name : {None, Some("Smith"), Some("Nobody")},
     gender : {None, Some("female"), Some("male")},
     birthdate : {None, Some("1985-05-15")},
     count : {None, Some(1)},
     offset : {None, Some(1)}]

\* search_patients: count and offset are defaulted, the three searches run
\* (500 when one fails), and the page of ids is fetched with fhir_get one by
\* one; an id whose fetch fails is left out.
ExtSearchPatients(query) ==
    /\ ext.pc \in {"idle", "done"}
    /\ ext.calls < MaxCalls
    /\ LET call == [op |-> "search", query |-> query]
           params == [name |-> query.name, gender |-> query.gender,
                      birthdate |-> query.birthdate,
                      count |-> Some(min(unwrap_or(query.count, ExtDefaultCount), ExtMaxPageSize)),
                      offset |-> Some(unwrap_or(query.offset, 0))]
       IN  \/ /\ is_some(query.name) \/ is_some(query.gender) \/ is_some(query.birthdate)
              /\ ExtDone(ext.resources, call @@ Outcome(500, "exception"))
           \/ \E by_name \in search_by_param(ext.resources, "name", params.name),
                 by_gender \in search_by_param(ext.resources, "gender", params.gender),
                 by_birthdate \in search_by_param(ext.resources, "birthDate", params.birthdate) :
                 LET result_ids == search_result_ids(params,
                                       [name |-> by_name, gender |-> by_gender,
                                        birthdate |-> by_birthdate])
                     page == skip_take(result_ids, unwrap_or(params.offset, 0), params.count)
                 IN  \E failed \in SUBSET {page[i] : i \in 1..Len(page)} :
                        ExtDone(ext.resources,
                                call @@ [status |-> 200,
                                         bundle |-> SearchBundle(
                                             SeqMap(LAMBDA id : ext.resources[id],
                                                    SelectSeq(page, LAMBDA id : id \notin failed)))])
    /\ UNCHANGED <<store, pc, local, calls, mh, sh, append_errors, budget, fo>>

\* The table is empty or holds the record left by an earlier POST.
InitExt ==
    /\ fhir_resources = EmptyMap
    /\ patient_history = {}
    /\ row_log = {}
    /\ clock = 0
    /\ pc = [p \in Procs |-> "idle"]
    /\ local = [p \in Procs |-> NoLocal]
    /\ calls = 0
    /\ budget = MaxCalls
    /\ fo = NoOrganize
    /\ append_errors = {}
    /\ mh = NoMerge
    /\ sh = NoSearch
    /\ \E resources \in {EmptyMap, [a |-> fhir_put_row(StoredBody, "a")]} :
          ext = [pc |-> "idle", resources |-> resources, calls |-> 0]

NextExt ==
    \/ \E resource \in ExtBodies : ExtCreatePatient(resource)
    \/ \E id \in Ids : ExtGetPatient(id)
    \/ \E id \in Ids : ExtGetPatientHistory(id)
    \/ \E query \in ExtSearchQueries : ExtSearchPatients(query)

SpecExt == InitExt /\ [][NextExt]_vars

(***************************************************************************)
(* GET /fhir/Patient: handlers::search_patients and                        *)
(* Database::search_patients.  sh.rows is table fhir_resources.            *)
(***************************************************************************)
\* ---- text operators of the SQL query ----
UpperToLower ==
    [A |-> "a", B |-> "b", C |-> "c", D |-> "d", E |-> "e", F |-> "f", G |-> "g",
     H |-> "h", I |-> "i", J |-> "j", K |-> "k", L |-> "l", M |-> "m", N |-> "n",
     O |-> "o", P |-> "p", Q |-> "q", R |-> "r", S |-> "s", T |-> "t", U |-> "u",
     V |-> "v", W |-> "w", X |-> "x", Y |-> "y", Z |-> "z"]
LowerChar(c) == IF c \in DOMAIN UpperToLower THEN UpperToLower[c] ELSE c
RECURSIVE Lower(_)
Lower(s) ==
    IF Len(s) = 0 THEN ""
    ELSE LowerChar(SubSeq(s, 1, 1)) \o Lower(SubSeq(s, 2, Len(s)))

\* text ILIKE '%' || val || '%' (val holds no wildcard)
ILikeContains(text, val) ==
    \E i \in 1..(Len(text) - Len(val) + 1) :
        SubSeq(Lower(text), i, i + Len(val) - 1) = Lower(val)

\* Order of the characters of a date in the comparison of two texts.
DateChars == "-0123456789"
CharRank(c) == CHOOSE i \in 1..Len(DateChars) : SubSeq(DateChars, i, i) = c
RECURSIVE TextLess(_, _)
TextLess(s, t) ==
    IF Len(t) = 0 THEN FALSE
    ELSE IF Len(s) = 0 THEN TRUE
    ELSE IF SubSeq(s, 1, 1) # SubSeq(t, 1, 1)
    THEN CharRank(SubSeq(s, 1, 1)) < CharRank(SubSeq(t, 1, 1))
    ELSE TextLess(SubSeq(s, 2, Len(s)), SubSeq(t, 2, Len(t)))
\* s <= t and s >= t of two texts
TextLe(s, t) == s = t \/ TextLess(s, t)
TextGe(s, t) == s = t \/ TextLess(t, s)

\* resource_data #>> path and resource_data ->> key: the text at the path, or
\* NULL (None).  The documents stored are serialisations of Patient, whose
\* values at the paths of the query are strings.
json_text(v, path) ==
    LET c == PtrGet(v, path)
    IN  IF is_some(c) /\ IsStr(unwrap(c)) THEN Some(unwrap(c).str) ELSE None

\* ---- the table and the query parameters ----
SearchIds == {"a", "b", "c"}
\* ORDER BY id
IdOrder == <<"a", "b", "c">>

JaneSmith == StoredBody
TextOnly ==
    PatientToValue(NewPatient(Some(<<NameNoUse>>), Some("male"), Some("1990-01-01"), EmptyMap))
JonesThenSmith ==
    PatientToValue(NewPatient(Some(<<NameUsual, NameOfficial>>), None, None, EmptyMap))
SearchBodies == {JaneSmith, TextOnly, JonesThenSmith}

\* the tables: every id is absent or holds version 1 of one of the bodies
SearchTables ==
    UNION {[ids -> {inserted_row(b, 0) : b \in SearchBodies}] : ids \in SUBSET SearchIds}

OptOf(S) == {None} \cup {Some(x) : x \in S}

\* unwrap_or(20).min(100)
DefaultCount == 20
MaxPageSize == 100

SearchParams ==
    [name : OptOf({"smi"}),
     name_contains : OptOf({"JA"}),
     birth_date : OptOf({"1985-05-15"}),
     birth_date_ge : OptOf({"1985-05-15", "1990-01-02"}),
     birth_date_le : OptOf({"1989-12-31"}),
     gender : OptOf({"female", "Female"}),
     count : OptOf((0..MaxCount) \cup {MaxPageSize + 1}),
     offset : OptOf(0..MaxCount)]

\* Mutation: a row is selected when it satisfies one of the predicates given.
search_where_any(row, name, birth_date, birth_date_ge, birth_date_le, gender) ==
    LET family == json_text(row.resource_data, <<"name", "0", "family">>)
        given == json_text(row.resource_data, <<"name", "0", "given", "0">>)
        row_gender == json_text(row.resource_data, <<"gender">>)
        row_birth == json_text(row.resource_data, <<"birthDate">>)
    IN  \/ \A o \in {name, birth_date, birth_date_ge, birth_date_le, gender} : is_none(o)
        \/ /\ is_some(name)
           /\ \/ is_some(family) /\ ILikeContains(unwrap(family), unwrap(name))
              \/ is_some(given) /\ ILikeContains(unwrap(given), unwrap(name))
        \/ is_some(gender) /\ is_some(row_gender) /\ unwrap(row_gender) = unwrap(gender)
        \/ is_some(birth_date) /\ is_some(row_birth) /\ unwrap(row_birth) = unwrap(birth_date)
        \/ /\ is_some(birth_date_ge)
           /\ is_some(row_birth) /\ TextGe(unwrap(row_birth), unwrap(birth_date_ge))
        \/ /\ is_some(birth_date_le)
           /\ is_some(row_birth) /\ TextLe(unwrap(row_birth), unwrap(birth_date_le))

\* Mutation: only rows that carry a gender are selected.
search_where_gendered(row, name, birth_date, birth_date_ge, birth_date_le, gender) ==
    LET family == json_text(row.resource_data, <<"name", "0", "family">>)
        given == json_text(row.resource_data, <<"name", "0", "given", "0">>)
        row_gender == json_text(row.resource_data, <<"gender">>)
        row_birth == json_text(row.resource_data, <<"birthDate">>)
    IN  /\ is_some(row_gender)
        /\ is_some(name) =>
              \/ is_some(family) /\ ILikeContains(unwrap(family), unwrap(name))
              \/ is_some(given) /\ ILikeContains(unwrap(given), unwrap(name))
        /\ is_some(gender) => unwrap(row_gender) = unwrap(gender)
        /\ is_some(birth_date) => is_some(row_birth) /\ unwrap(row_birth) = unwrap(birth_date)
        /\ is_some(birth_date_ge) =>
              is_some(row_birth) /\ TextGe(unwrap(row_birth), unwrap(birth_date_ge))
        /\ is_some(birth_date_le) =>
              is_some(row_birth) /\ TextLe(unwrap(row_birth), unwrap(birth_date_le))

\* ---- Database::search_patients ----
\* the WHERE clause on one row; a comparison with NULL does not select the row
search_where(row, name, birth_date, birth_date_ge, birth_date_le, gender) ==
    LET family == json_text(row.resource_data, <<"name", "0", "family">>)
        given == json_text(row.resource_data, <<"name", "0", "given", "0">>)
        row_gender == json_text(row.resource_data, <<"gender">>)
        row_birth == json_text(row.resource_data, <<"birthDate">>)
    IN  /\ is_some(name) =>
              \/ is_some(family) /\ ILikeContains(unwrap(family), unwrap(name))
              \/ is_some(given) /\ ILikeContains(unwrap(given), unwrap(name))
        /\ is_some(gender) => is_some(row_gender) /\ unwrap(row_gender) = unwrap(gender)
        /\ is_some(birth_date) => is_some(row_birth) /\ unwrap(row_birth) = unwrap(birth_date)
        /\ is_some(birth_date_ge) =>
              is_some(row_birth) /\ TextGe(unwrap(row_birth), unwrap(birth_date_ge))
        /\ is_some(birth_date_le) =>
              is_some(row_birth) /\ TextLe(unwrap(row_birth), unwrap(birth_date_le))

\* the ids selected by the WHERE clause, in the order of ORDER BY id
search_selected(rows, name, birth_date, birth_date_ge, birth_date_le, gender) ==
    SelectSeq(IdOrder,
              LAMBDA id : /\ id \in DOMAIN rows
                          /\ search_where(rows[id], name, birth_date, birth_date_ge,
                                          birth_date_le, gender))

\* Mutation: the limit is applied before the offset.
limit_then_offset(s, count, offset) ==
    SubSeq(SubSeq(s, 1, IF count < Len(s) THEN count ELSE Len(s)), offset + 1,
           IF count < Len(s) THEN count ELSE Len(s))

\* LIMIT count OFFSET offset
limit_offset(s, count, offset) ==
    SubSeq(s, offset + 1, IF offset + count < Len(s) THEN offset + count ELSE Len(s))

\* the rows fetched, each turned into a Patient with id and meta of the row
search_patients(rows, name, birth_date, birth_date_ge, birth_date_le, gender, count, offset) ==
    LET ids == limit_offset(
                   search_selected(rows, name, birth_date, birth_date_ge, birth_date_le, gender),
                   count, offset)
        patients == SeqMap(LAMBDA id : read_patient(id, rows[id]), ids)
    IN  IF \E i \in 1..Len(patients) : IsErr(patients[i])
        THEN Err("invalid type")
        ELSE Ok(SeqMap(LAMBDA r : unwrap(r.ok), patients))

\* ---- handlers::search_patients ----
\* sh.query holds the arguments of the call of Database::search_patients, once
\* the handler has made it.
\* a.or(b)
or(a, b) == IF is_some(a) THEN a ELSE b

Bundle(entries) ==
    [status |-> 200, resource_type |-> "Bundle", bundle_type |-> "searchset",
     total |-> Len(entries), entry |-> entries]

\* Mutation: the count of the request is passed on as it is.
search_count_uncapped(params) == unwrap_or(params.count, DefaultCount)

\* params.count.unwrap_or(20).min(100)
search_count(params) == min(unwrap_or(params.count, DefaultCount), MaxPageSize)
\* params.offset.unwrap_or(0)
search_offset(params) == unwrap_or(params.offset, 0)

\* the arguments the handler passes to Database::search_patients
search_query(params) ==
    [name |-> or(params.name_contains, params.name),
     birth_date |-> params.birth_date,
     birth_date_ge |-> params.birth_date_ge,
     birth_date_le |-> params.birth_date_le,
     gender |-> params.gender,
     count |-> search_count(params),
     offset |-> search_offset(params)]

search_response(rows, params) ==
    LET q == search_query(params)
        patients == search_patients(rows, q.name, q.birth_date, q.birth_date_ge,
                                    q.birth_date_le, q.gender, q.count, q.offset)
    IN  IF IsOk(patients) THEN Bundle(patients.ok) ELSE Outcome(500, "processing")

\* The handler answers with the bundle of the page, or with 500 when the query
\* fails.
SearchPatients ==
    /\ sh.pc = "request"
    /\ \/ sh' = [sh EXCEPT !.pc = "done", !.query = Some(search_query(sh.params)),
                            !.response = search_response(sh.rows, sh.params)]
       \/ sh' = [sh EXCEPT !.pc = "done", !.query = Some(search_query(sh.params)),
                            !.response = Outcome(500, "processing")]
    /\ UNCHANGED <<store, pc, local, calls, mh, ext, append_errors, budget, fo>>

\* One request with its parameters, on one table.
InitSearch ==
    /\ fhir_resources = EmptyMap
    /\ patient_history = {}
    /\ row_log = {}
    /\ clock = 0
    /\ pc = [p \in Procs |-> "idle"]
    /\ local = [p \in Procs |-> NoLocal]
    /\ calls = 0
    /\ budget = MaxCalls
    /\ fo = NoOrganize
    /\ append_errors = {}
    /\ mh = NoMerge
    /\ ext = NoExt
    /\ \E rows \in SearchTables, params \in SearchParams :
          sh = [pc |-> "request", rows |-> rows, params |-> params, query |-> None,
                response |-> NoLocal]

NextSearch == SearchPatients

SpecSearch == InitSearch /\ [][NextSearch]_vars

(***************************************************************************)
(* GET /fhir/Patient/:id/_history: handlers::get_patient_history and       *)
(* Database::get_patient_history, on the tables written by create and      *)
(* update.                                                                 *)
(***************************************************************************)
\* to_char(ts, 'YYYY-MM-DD"T"HH24:MI:SS"Z"'): the timestamp cut to whole
\* seconds; the clock ticks TicksPerSecond times a second.
TicksPerSecond == 2
to_char(ts) == "T" \o ToString(ts \div TicksPerSecond) \o "Z"

\* Mutation: the rows come oldest first.
RECURSIVE order_by_version_asc(_)
order_by_version_asc(rows) ==
    IF rows = {} THEN <<>>
    ELSE LET r == CHOOSE x \in rows : \A y \in rows : x.version_id <= y.version_id
         IN  <<r>> \o order_by_version_asc(rows \ {r})

\* ORDER BY version_id DESC
RECURSIVE order_by_version_desc(_)
order_by_version_desc(rows) ==
    IF rows = {} THEN <<>>
    ELSE LET r == CHOOSE x \in rows : \A y \in rows : y.version_id <= x.version_id
         IN  <<r>> \o order_by_version_desc(rows \ {r})

\* Mutation: only the rows written by updates are read.
get_patient_history_updated_only(id) ==
    IF ~IsUuid(id) THEN Err("invalid uuid")
    ELSE Ok(SeqMap(LAMBDA r : [version_id |-> r.version_id, ts |-> to_char(r.ts),
                               resource |-> r.resource, status |-> Some(r.status)],
                   order_by_version_desc({r \in patient_history :
                                             r.id = id /\ r.status = "updated"})))

\* Database::get_patient_history: (version_id, ts, resource, status) of the
\* rows of the id
get_patient_history(id) ==
    IF ~IsUuid(id) THEN Err("invalid uuid")
    ELSE Ok(SeqMap(LAMBDA r : [version_id |-> r.version_id, ts |-> to_char(r.ts),
                               resource |-> r.resource, status |-> Some(r.status)],
                   order_by_version_desc({r \in patient_history : r.id = id})))

\* Mutation: every entry is given the request method PUT.
history_method_put(status) == "PUT"

\* match status.as_deref() { Some("created") => "POST", _ => "PUT" }
history_method(status) == IF status = Some("created") THEN "POST" ELSE "PUT"

\* the snapshot with resourceType, id and meta.versionId / meta.lastUpdated of
\* the history row
history_resource(id, h) ==
    IF ~IsObj(h.resource) THEN h.resource
    ELSE LET m1 == IF "resourceType" \in DOMAIN h.resource.obj THEN h.resource.obj
                   ELSE MapInsert(h.resource.obj, "resourceType", Str("Patient"))
             m2 == MapInsert(m1, "id", Str(id))
             meta_entry == IF "meta" \in DOMAIN m2 THEN m2["meta"] ELSE Obj(EmptyMap)
             meta == IF IsObj(meta_entry)
                     THEN Obj(MapInsert(MapInsert(meta_entry.obj,
                                  "versionId", Str(ToString(h.version_id))),
                                  "lastUpdated", Str(h.ts)))
                     ELSE meta_entry
         IN  Obj(MapInsert(m2, "meta", meta))

base_url == "http://localhost:3000"

history_entry(id, h) ==
    [fullUrl |-> base_url \o "/fhir/Patient/" \o id,
     resource |-> history_resource(id, h),
     request |-> [method |-> history_method(h.status), url |-> "Patient/" \o id],
     response |-> [status |-> "200 OK", lastModified |-> h.ts]]

\* Mutation: the bundle carries the timestamp of its oldest entry.
bundle_last_updated_oldest(history) ==
    IF Len(history) > 0 THEN Some(history[Len(history)].ts) ELSE None

\* history.first().map(|(_, ts, _, _)| ts.clone())
bundle_last_updated(history) == IF Len(history) > 0 THEN Some(history[1].ts) ELSE None

\* the Bundle of type history; meta is inserted only when there is a record
history_bundle(id, history) ==
    [status |-> 200, resource_type |-> "Bundle", bundle_type |-> "history",
     total |-> Len(history),
     link |-> <<[relation |-> "self", url |-> base_url \o "/fhir/Patient/" \o id \o "/_history"]>>,
     entry |-> SeqMap(LAMBDA h : history_entry(id, h), history),
     meta |-> IF is_some(bundle_last_updated(history))
              THEN Some([lastUpdated |-> unwrap(bundle_last_updated(history))])
              ELSE None]

\* Mutation: an id without history rows is answered with not-found.
GetPatientHistoryNotFound(p, id) ==
    /\ Accept(p)
    /\ LET loc == [op |-> "history", id |-> id]
           r == get_patient_history(id)
       IN  \/ /\ IsOk(r) /\ Len(r.ok) > 0
              /\ Done(p, loc, history_bundle(id, r.ok))
           \/ /\ IsOk(r) /\ Len(r.ok) = 0
              /\ Done(p, loc, Outcome(404, "not-found"))
           \/ Done(p, loc, Outcome(500, "processing"))
    /\ UNCHANGED <<store, harness, append_errors>>

GetPatientHistory(p, id) ==
    /\ Accept(p)
    /\ LET loc == [op |-> "history", id |-> id]
           r == get_patient_history(id)
       IN  \/ /\ IsOk(r)
              /\ Done(p, loc, history_bundle(id, r.ok))
           \/ Done(p, loc, Outcome(500, "processing"))
    /\ UNCHANGED <<store, harness, append_errors>>

\* The bodies of the requests that build a history.
HistoryCreateBody == NewPatient(Some(<<NameOfficial>>), Some("female"), Some("1985-05-15"), EmptyMap)
HistoryUpdateBody == NewPatient(None, Some("male"), None, EmptyMap)
\* the record the updates and the history reads name
HistoryIds == {"a"}

\* The server starts on an empty database.
InitHistory ==
    /\ fhir_resources = EmptyMap
    /\ patient_history = {}
    /\ row_log = {}
    /\ clock = 0
    /\ pc = [p \in Procs |-> "idle"]
    /\ local = [p \in Procs |-> NoLocal]
    /\ calls = 0
    /\ budget = MaxHistoryCalls
    /\ fo = NoOrganize
    /\ append_errors = {}
    /\ mh = NoMerge
    /\ ext = NoExt
    /\ sh = NoSearch

NextHistory ==
    \/ \E p \in Procs : CreateInsert(p, HistoryCreateBody)
    \/ \E p \in Procs : CreateHistory(p)
    \/ \E p \in Procs, id \in HistoryIds : UpdatePatient(p, id, HistoryUpdateBody)
    \/ \E p \in Procs : UpdateWrite(p)
    \/ \E p \in Procs : UpdateHistory(p)
    \/ \E p \in Procs, id \in HistoryIds \cup {BadId} : GetPatientHistory(p, id)

SpecHistory == InitHistory /\ [][NextHistory]_vars

(***************************************************************************)
(* Properties of the merge (SpecMerge).                                    *)
(***************************************************************************)
Merged == mh.pc = "merged"
\* the name lists of the body read, of the incoming body and of the merge
NamesOf(patient) == IF is_some(patient.name) THEN unwrap(patient.name) ELSE <<>>
ExistingNames == NamesOf(mh.existing)
IncomingNames == NamesOf(mh.patient)
MergedNames == NamesOf(mh.merged)
\* the JSON document written to resource_data
Stored == mh.row.resource_data.obj
StoredNames == IF "name" \in DOMAIN Stored THEN Stored["name"].arr ELSE <<>>
StoredExtra == MapWithout(Stored, PatientFields)

\* the fields the merge understands
Understood(patient) == <<patient.name, patient.gender, patient.birth_date, patient.extra>>
SelfMerge == Merged /\ Understood(mh.patient) = Understood(mh.existing)

HasUse(name) == is_some(extract_use(name))
SameUse(n1, n2) == HasUse(n1) /\ extract_use(n1) = extract_use(n2)
\* the use of this incoming / existing name occurs on the other side
MatchesExisting(name) == \E i \in 1..Len(ExistingNames) : SameUse(name, ExistingNames[i])
MatchesIncoming(name) == \E j \in 1..Len(IncomingNames) : SameUse(name, IncomingNames[j])

\* C5, as claimed: merging a body onto itself gives the body back, for every
\* name list.
C5_MergeIdempotent ==
    SelfMerge => Understood(mh.merged) = Understood(mh.existing)

\* every name has a `use`, and names with the same `use` are equal
UseDetermined(names) ==
    /\ \A i \in 1..Len(names) : HasUse(names[i])
    /\ \A i, j \in 1..Len(names) : SameUse(names[i], names[j]) => names[i] = names[j]

\* C5, amended: merging a body onto itself gives back the same name list,
\* gender, birthDate and extension bag when every name entry carries a `use`
\* and entries sharing a `use` value are equal.
C5_MergeIdempotentUseDetermined ==
    (SelfMerge /\ UseDetermined(ExistingNames)) =>
        Understood(mh.merged) = Understood(mh.existing)

C5_Witness ==
    /\ SelfMerge
    /\ UseDetermined(ExistingNames)
    /\ Len(ExistingNames) = 2
    /\ ~SameUse(ExistingNames[1], ExistingNames[2])
    /\ is_some(mh.existing.gender)
    /\ DOMAIN mh.existing.extra # {}

\* C6: an existing name whose `use` is on no incoming name (or that has no
\* `use`) is in the merged list and in the stored document, at its position
\* and unchanged.
C6_UnmatchedNamesKept ==
    Merged =>
        \A i \in 1..Len(ExistingNames) :
            ~MatchesIncoming(ExistingNames[i]) =>
                /\ i <= Len(MergedNames) /\ MergedNames[i] = ExistingNames[i]
                /\ i <= Len(StoredNames) /\ StoredNames[i] = HumanNameToValue(ExistingNames[i])

C6_Witness ==
    /\ Merged
    /\ Len(ExistingNames) = 2
    /\ ~HasUse(ExistingNames[1])
    /\ MatchesIncoming(ExistingNames[2])
    /\ Len(IncomingNames) = 2
    /\ MergedNames[1] = ExistingNames[1]
    /\ MergedNames[2] # ExistingNames[2]

\* the incoming names that match no existing `use`, in incoming order
RECURSIVE Unmatched(_)
Unmatched(names) ==
    IF Len(names) = 0 THEN <<>>
    ELSE IF MatchesExisting(Head(names)) THEN Unmatched(Tail(names))
    ELSE <<Head(names)>> \o Unmatched(Tail(names))

FirstWithUse(i) == \A k \in 1..(i - 1) : ~SameUse(ExistingNames[i], ExistingNames[k])
LastIncomingWithUse(name) ==
    CHOOSE j \in 1..Len(IncomingNames) :
        /\ SameUse(name, IncomingNames[j])
        /\ \A k \in (j + 1)..Len(IncomingNames) : ~SameUse(name, IncomingNames[k])

\* C7: with both lists present, position i of the result holds the incoming
\* name with the `use` of existing name i when i is the first existing name
\* with that `use` (the last such incoming name when several have it), and
\* existing name i otherwise; the incoming names that match no existing `use`
\* follow in incoming order, so the length is |existing| + their number.
C7_ReplaceInPlaceOrAppend ==
    (Merged /\ is_some(mh.existing.name) /\ is_some(mh.patient.name)) =>
        /\ Len(MergedNames) = Len(ExistingNames) + Len(Unmatched(IncomingNames))
        /\ \A i \in 1..Len(ExistingNames) :
              MergedNames[i] =
                  IF MatchesIncoming(ExistingNames[i]) /\ FirstWithUse(i)
                  THEN IncomingNames[LastIncomingWithUse(ExistingNames[i])]
                  ELSE ExistingNames[i]
        /\ SubSeq(MergedNames, Len(ExistingNames) + 1, Len(MergedNames)) = Unmatched(IncomingNames)
        /\ StoredNames = SeqMap(HumanNameToValue, MergedNames)

C7_Witness ==
    /\ Merged
    /\ Len(ExistingNames) = 2
    /\ SameUse(ExistingNames[1], ExistingNames[2])
    /\ Len(IncomingNames) = 2
    /\ MatchesExisting(IncomingNames[1])
    /\ ~MatchesExisting(IncomingNames[2])
    /\ IncomingNames[1] # ExistingNames[1]
    /\ MergedNames = <<IncomingNames[1], ExistingNames[2], IncomingNames[2]>>

StoredScalar(key) == IF key \in DOMAIN Stored THEN Some(Stored[key].str) ELSE None

\* C8: the stored gender and birthDate are the incoming ones when the incoming
\* body has them and the ones read otherwise; a body with nothing but a gender
\* leaves birthDate and name as read.
C8_ScalarOverride ==
    Merged =>
        /\ StoredScalar("gender") =
              IF is_some(mh.patient.gender) THEN mh.patient.gender ELSE mh.existing.gender
        /\ StoredScalar("birthDate") =
              IF is_some(mh.patient.birth_date) THEN mh.patient.birth_date ELSE mh.existing.birth_date
        /\ (is_none(mh.patient.name) /\ is_none(mh.patient.birth_date)) =>
              /\ StoredScalar("birthDate") = mh.existing.birth_date
              /\ StoredNames = SeqMap(HumanNameToValue, ExistingNames)

C8_Witness ==
    /\ Merged
    /\ mh.existing.gender = Some("female")
    /\ mh.existing.birth_date = Some("1985-05-15")
    /\ Len(ExistingNames) = 1
    /\ mh.patient.gender = Some("male")
    /\ is_none(mh.patient.birth_date) /\ is_none(mh.patient.name)
    /\ StoredScalar("gender") = Some("male")
    /\ StoredScalar("birthDate") = Some("1985-05-15")

\* C9: the stored extension bag has the keys of both bags, the incoming value
\* under every incoming key and the value read under every other key.
C9_ExtraShallowUnion ==
    Merged =>
        /\ DOMAIN StoredExtra = (DOMAIN mh.existing.extra) \cup (DOMAIN mh.patient.extra)
        /\ \A k \in DOMAIN mh.patient.extra : StoredExtra[k] = mh.patient.extra[k]
        /\ \A k \in (DOMAIN mh.existing.extra) \ (DOMAIN mh.patient.extra) :
              StoredExtra[k] = mh.existing.extra[k]

C9_Witness ==
    /\ Merged
    /\ mh.existing.extra = ExtraNested
    /\ mh.patient.extra = ExtraShallow
    /\ StoredExtra["address"] = Obj([city |-> Str("Bonn")])
    /\ StoredExtra["active"] = Bool(TRUE)

(***************************************************************************)
(* Properties of the store (Spec).                                         *)
(***************************************************************************)
Exists(id) == id \in DOMAIN fhir_resources
VersionOf(id) == fhir_resources[id].version_id
\* p has run its version-assigning statement for the record it names
Wrote(p) == "version_id" \in DOMAIN local[p]
Returned(p, status) == pc[p] = "done" /\ local[p].response.status = status
ReturnedVersion(p) == unwrap(local[p].response.patient.meta).version_id
\* p runs its INSERT / its UPDATE in this step
Inserts(p) == pc[p] # "create_history" /\ pc'[p] = "create_history"
Updates(p) == pc[p] = "update_write" /\ pc'[p] = "update_history"

\* C1: create assigns version 1 to a new id and every update or patch is
\* assigned the stored version plus 1, which becomes the stored version; the
\* stored version changes in no other way and the response carries the
\* version assigned: the versions of one id are 1, 2, 3, ... without gap or
\* repeat.
C1_VersionSequence ==
    [][/\ \A id \in Ids :
            /\ Exists(id) => id \in DOMAIN fhir_resources'
            /\ (~Exists(id) /\ id \in DOMAIN fhir_resources') =>
                  /\ fhir_resources'[id].version_id = 1
                  /\ \E p \in Procs : Inserts(p) /\ local'[p].id = id
            /\ (Exists(id) /\ fhir_resources'[id].version_id # VersionOf(id)) =>
                  /\ fhir_resources'[id].version_id = VersionOf(id) + 1
                  /\ \E p \in Procs : Updates(p) /\ local'[p].id = id
       /\ \A p \in Procs :
            /\ Inserts(p) =>
                  /\ ~Exists(local'[p].id)
                  /\ local'[p].version_id = 1
            /\ Updates(p) =>
                  /\ local'[p].version_id = VersionOf(local'[p].id) + 1
                  /\ fhir_resources'[local'[p].id].version_id = local'[p].version_id
            /\ (pc[p] \in {"create_history", "update_history"} /\ pc'[p] = "done") =>
                  /\ local'[p].response.status \in {200, 201}
                  /\ unwrap(local'[p].response.patient.meta).version_id =
                        Some(ToString(local[p].version_id))]_vars

\* the record created before the server started, updated and then patched
C1_Witness ==
    \E p \in Procs :
        /\ Returned(p, 200)
        /\ local[p].op = "patch"
        /\ ReturnedVersion(p) = Some("3")
        /\ VersionOf(local[p].id) = 3
        /\ \E h \in patient_history : h.id = local[p].id /\ h.version_id = 2

Mutation(p) == local[p].op \in {"update", "patch"} /\ Wrote(p)

\* C2: two update or patch calls in progress on one id are never assigned the
\* same version.
C2_DistinctVersions ==
    \A p, q \in Procs :
        (p # q /\ Mutation(p) /\ Mutation(q) /\ local[p].id = local[q].id) =>
            local[p].version_id # local[q].version_id

\* both calls read version 1 before either wrote
C2_Witness ==
    /\ \A p \in Procs : pc[p] = "update_history" /\ Mutation(p)
    /\ local[1].id = local[2].id
    /\ local[1].existing.meta = local[2].existing.meta
    /\ local[1].op = "update" /\ local[2].op = "patch"
    /\ {local[1].version_id, local[2].version_id} = {2, 3}

ReadVersion(p) == unwrap(local[p].existing.meta).version_id
\* the document left by the merge of first's body and then second's body onto
\* the body that first read
Serial(first, second) ==
    PatientToValue(
        merged_patient(local[first].id,
            merged_patient(local[first].id, local[first].existing, local[first].patient),
            local[second].patient))

\* C3: after two overlapping updates of one id have both returned, with no
\* other write, the stored body is the one of the two merges applied one
\* after the other in some order.
C3_NoLostUpdate ==
    \A p, q \in Procs :
        (/\ p # q
         /\ Returned(p, 200) /\ Returned(q, 200)
         /\ local[p].op = "update" /\ local[q].op = "update"
         /\ local[p].id = local[q].id
         /\ ReadVersion(p) = Some(ToString(local[p].version_id - 1))
         /\ local[q].version_id = local[p].version_id + 1
         /\ VersionOf(local[q].id) = local[q].version_id)
        => fhir_resources[local[p].id].resource_data \in {Serial(p, q), Serial(q, p)}

\* C4: when a patch has returned and nothing was written since, the stored
\* body is the patched representation.
C4_PatchedBodyStored ==
    \A p \in Procs :
        (/\ Returned(p, 200)
         /\ local[p].op = "patch"
         /\ VersionOf(local[p].id) = local[p].version_id)
        => Understood(PatientFromValue(fhir_resources[local[p].id].resource_data).ok)
              = Understood(local[p].patient)

\* the result of the patch of p carries an id that is not the id of the target
PatchChangesId(loc) ==
    LET patched_value == json_patch(PatientToValue(loc.existing_patient), loc.patch, 1)
        patched_patient == PatientFromValue(patched_value.ok)
    IN  /\ IsOk(patched_value)
        /\ IsOk(patched_patient)
        /\ is_some(patched_patient.ok.id)
        /\ unwrap(patched_patient.ok.id) # loc.id

\* C10: a patch whose result carries another id returns 400 "invariant" in
\* the step that applies it, and that step writes nothing: no row, no version
\* and no history row changes.
C10_ChangedIdRejected ==
    [][\A p \in Procs :
          (/\ Free(p) /\ calls' = calls + 1 /\ pc'[p] # "idle" /\ local'[p].op = "patch"
           /\ \A q \in Procs_before(p) : ~Free(q)
           /\ "existing_patient" \in DOMAIN local'[p]
           /\ PatchChangesId(local'[p]))
          => /\ pc'[p] = "done"
             /\ local'[p].response = Outcome(400, "invariant")
             /\ ~Wrote(p)'
             /\ store' = store]_vars

C10_Witness ==
    \E p \in Procs :
        /\ Returned(p, 400)
        /\ local[p].op = "patch"
        /\ local[p].response.code = "invariant"
        /\ Exists(local[p].id)
        /\ VersionOf(local[p].id) = 1

\* p takes a PATCH request in this step and has read the record it names
PatchStep(p) ==
    /\ Free(p) /\ \A q \in Procs_before(p) : ~Free(q)
    /\ calls' = calls + 1
    /\ pc'[p] # "idle"
    /\ local'[p].op = "patch"
    /\ "existing_patient" \in DOMAIN local'[p]

\* the patch of loc applied to the serialised record that was read
PatchedValue(loc) == json_patch(PatientToValue(loc.existing_patient), loc.patch, 1)
\* an operation of the patch fails, or the patched document is no Patient
PatchFails(loc) ==
    IF IsErr(PatchedValue(loc)) THEN TRUE
    ELSE IsErr(PatientFromValue(PatchedValue(loc).ok))

\* C11: a patch with an operation that fails (or whose result has a field of
\* the wrong type) returns 400 in the step that applies it, whatever its
\* earlier operations did, and that step changes no row, no version and no
\* history row.
C11_FailedPatchNoEffect ==
    [][\A p \in Procs :
          (PatchStep(p) /\ PatchFails(local'[p]))
          => /\ pc'[p] = "done"
             /\ local'[p].response \in {Outcome(400, "processing"), Outcome(400, "invalid")}
             /\ local'[p].response.code = "processing" <=> IsErr(PatchedValue(local'[p]))
             /\ ~Wrote(p)'
             /\ store' = store]_vars

\* the first operation of the patch succeeded and the second failed
C11_Witness ==
    \E p \in Procs :
        /\ Returned(p, 400)
        /\ local[p].op = "patch"
        /\ local[p].response.code = "processing"
        /\ Len(local[p].patch) = 2
        /\ IsOk(apply_op(PatientToValue(local[p].existing_patient), local[p].patch[1]))
        /\ fhir_resources[local[p].id].resource_data = StoredBody
        /\ VersionOf(local[p].id) = 1

\* the patch applies and its result is a Patient document of another resourceType
PatchChangesType(loc) ==
    /\ ~PatchFails(loc)
    /\ PatientFromValue(PatchedValue(loc).ok).ok.resource_type # "Patient"

\* C12: a patch whose result declares a resourceType other than "Patient" is
\* answered 400 "invalid" (400 "invariant" when it changes the id as well) in
\* the step that applies it, and that step changes no row, no version and no
\* history row.
C12_ChangedTypeRejected ==
    [][\A p \in Procs :
          (PatchStep(p) /\ PatchChangesType(local'[p]))
          => /\ pc'[p] = "done"
             /\ local'[p].response =
                    IF PatchChangesId(local'[p]) THEN Outcome(400, "invariant")
                    ELSE Outcome(400, "invalid")
             /\ ~Wrote(p)'
             /\ store' = store]_vars

C12_Witness ==
    \E p \in Procs :
        /\ Returned(p, 400)
        /\ local[p].op = "patch"
        /\ local[p].response.code = "invalid"
        /\ PatchChangesType(local[p])
        /\ PatientFromValue(fhir_resources[local[p].id].resource_data).ok.resource_type = "Patient"
        /\ VersionOf(local[p].id) = 1

\* the rows of fhir.patient_history of one id
HistoryOf(id) == {h \in patient_history : h.id = id}
\* a call on id has written its row and not yet run its history INSERT
AppendPending(id) ==
    \E p \in Procs : pc[p] \in {"create_history", "update_history"} /\ local[p].id = id
AppendFailed(id) == \E e \in append_errors : e[1] = id

\* C13: when no history INSERT of a record has failed and none is still to
\* run, the history table holds exactly one row for each version 1..N of the
\* record, N being its stored version.
C13_OneRecordPerVersion ==
    \A id \in DOMAIN fhir_resources :
        (~AppendFailed(id) /\ ~AppendPending(id)) =>
            /\ {h.version_id : h \in HistoryOf(id)} = 1..VersionOf(id)
            /\ Cardinality(HistoryOf(id)) = VersionOf(id)

\* a record created, updated and patched, every append done
C13_Witness ==
    \E id \in DOMAIN fhir_resources :
        /\ VersionOf(id) = 3
        /\ append_errors = {}
        /\ \A p \in Procs : Returned(p, 200) /\ local[p].id = id
        /\ Cardinality(HistoryOf(id)) = 3
        /\ {h.status : h \in HistoryOf(id)} = {"created", "updated"}

\* the history INSERT of p fails in this step
AppendFails(p) ==
    /\ pc[p] \in {"create_history", "update_history"}
    /\ <<local[p].id, local[p].version_id>> \in append_errors' \ append_errors

\* C14: when the history INSERT of a create, update or patch fails, the call
\* returns success (201 for create, 200 otherwise) with the record at the
\* version it wrote; the row in fhir_resources is left as written (it holds
\* the call's body and version unless a later call has written since), and no
\* history row exists for that version.
C14_AppendFailureKeepsMutation ==
    [][\A p \in Procs :
          AppendFails(p) =>
             LET loc == local[p]
                 response == local'[p].response
             IN  /\ pc'[p] = "done"
                 /\ response.status = IF loc.op = "create" THEN 201 ELSE 200
                 /\ response.patient.id = Some(loc.id)
                 /\ unwrap(response.patient.meta).version_id = Some(ToString(loc.version_id))
                 /\ fhir_resources' = fhir_resources
                 /\ VersionOf(loc.id) >= loc.version_id
                 /\ VersionOf(loc.id) = loc.version_id =>
                        fhir_resources'[loc.id].resource_data = loc.patient_json
                 /\ patient_history' = patient_history
                 /\ ~\E h \in patient_history' : h.id = loc.id /\ h.version_id = loc.version_id]_vars

\* the append of a patch failed: the record is at version 2 with the history
\* row of version 1 only
C14_Witness ==
    \E p \in Procs :
        /\ Returned(p, 200)
        /\ local[p].op = "patch"
        /\ append_errors = {<<local[p].id, 2>>}
        /\ VersionOf(local[p].id) = 2
        /\ fhir_resources[local[p].id].resource_data = local[p].patient_json
        /\ {h.version_id : h \in HistoryOf(local[p].id)} = {1}

\* C15: every record at version 1 has its `created` history row of version 1,
\* in every reachable state.
C15_CreatedWithHistory ==
    \A id \in DOMAIN fhir_resources :
        VersionOf(id) = 1 =>
            \E h \in HistoryOf(id) : h.version_id = 1 /\ h.status = "created"

(***************************************************************************)
(* Properties of the service on the extension functions (SpecExt).         *)
(***************************************************************************)
\* this step is a POST whose fhir_put has written
ExtCreates ==
    /\ ext'.calls = ext.calls + 1
    /\ ext'.response.op = "create"
    /\ "id" \in DOMAIN ext'.response

\* C16: a create is given an id that no stored record holds, whatever id its
\* body carries, and leaves every stored record as it was.
C16_CreateFreshId ==
    [][ExtCreates =>
          /\ ext'.response.id \notin DOMAIN ext.resources
          /\ \A id \in DOMAIN ext.resources : ext'.resources[id] = ext.resources[id]]_vars

\* C17: no record leaves the table; an update or patch of id writes the row
\* of id and no other row, and the document it stores carries id, whatever id
\* the incoming or patched body carries; every Patient returned by get,
\* update or patch for id carries id.
C17_IdNeverChanges ==
    [][/\ DOMAIN fhir_resources \subseteq DOMAIN fhir_resources'
       /\ \A p \in Procs :
            /\ Updates(p) =>
                  LET id == local'[p].id
                  IN  /\ DOMAIN fhir_resources' = DOMAIN fhir_resources
                      /\ \A other \in DOMAIN fhir_resources \ {id} :
                            fhir_resources'[other] = fhir_resources[other]
                      /\ fhir_resources'[id].resource_data.obj["id"] = Str(id)
            /\ (pc'[p] = "done" /\ local'[p] # local[p]
                /\ local'[p].op \in {"get", "update", "patch"}
                /\ local'[p].response.status = 200) =>
                  local'[p].response.patient.id = Some(local'[p].id)]_vars

\* an update of a with a body that carries the id b, while b is stored too
C17_Witness ==
    \E p \in Procs :
        /\ Returned(p, 200)
        /\ local[p].op = "update"
        /\ local[p].id = "a"
        /\ local[p].patient.id = Some("b")
        /\ DOMAIN fhir_resources = {"a", "b"}
        /\ VersionOf("a") = 2 /\ VersionOf("b") = 1
        /\ local[p].response.patient.id = Some("a")

\* p takes a PUT or PATCH request for an id that no record holds
UnknownIdStep(p) ==
    /\ Free(p) /\ \A q \in Procs_before(p) : ~Free(q)
    /\ calls' = calls + 1
    /\ pc'[p] # "idle"
    /\ local'[p].op \in {"update", "patch"}
    /\ IsUuid(local'[p].id)
    /\ local'[p].id \notin DOMAIN fhir_resources

\* C18: an update or patch of a well-formed id that no record holds ends in
\* the step that looks the record up, with 404 "not-found" (500 when the
\* lookup itself fails); the step adds no row and no history row.
C18_UnknownIdNotFound ==
    [][\A p \in Procs :
          UnknownIdStep(p) =>
             /\ pc'[p] = "done"
             /\ local'[p].response \in {Outcome(404, "not-found"), Outcome(500, "processing")}
             /\ ~Wrote(p)'
             /\ store' = store]_vars

\* a patch of b has been answered 404 while a is the only record stored
C18_Witness ==
    \E p \in Procs :
        /\ pc[p] = "done" /\ local[p].response = Outcome(404, "not-found")
        /\ local[p].op = "patch"
        /\ local[p].id = "b"
        /\ DOMAIN fhir_resources = {"a"}
        /\ Cardinality(patient_history) = 1

\* the versionId carried by the body that p hands to update_patient
SuppliedVersion(p) ==
    IF is_some(local[p].patient.meta) THEN unwrap(local[p].patient.meta).version_id ELSE None

\* C19: when the body of an update, or the result of a patch, carries a
\* meta.versionId, the UPDATE still stores the version of the row plus 1, the
\* stored document carries no meta, and the version returned is the stored one.
C19_StoreOwnsVersion ==
    [][\A p \in Procs :
          /\ (Updates(p) /\ is_some(SuppliedVersion(p))) =>
                LET id == local[p].id
                IN  /\ fhir_resources'[id].version_id = VersionOf(id) + 1
                    /\ "meta" \notin DOMAIN fhir_resources'[id].resource_data.obj
                    /\ unwrap(local'[p].updated_patient.meta).version_id =
                          Some(ToString(VersionOf(id) + 1))
          /\ (pc[p] = "update_history" /\ pc'[p] = "done") =>
                local'[p].response = Success(200, local[p].updated_patient)]_vars

\* a patch has written meta.versionId "9" and an update carried it in its
\* body: the record went from version 1 to 2 to 3
C19_Witness ==
    /\ {local[p].op : p \in Procs} = {"update", "patch"}
    /\ \A p \in Procs : Returned(p, 200) /\ SuppliedVersion(p) = Some("9") /\ local[p].id = "a"
    /\ {ReturnedVersion(p) : p \in Procs} = {Some("2"), Some("3")}
    /\ VersionOf("a") = 3


(***************************************************************************)
(* Properties of the search (SpecSearch).                                  *)
(***************************************************************************)
Searched == sh.pc = "done" /\ sh.response.status = 200
\* the ids of all rows selected by the predicates of the request
AllMatches ==
    search_selected(sh.rows, or(sh.params.name_contains, sh.params.name),
                    sh.params.birth_date, sh.params.birth_date_ge,
                    sh.params.birth_date_le, sh.params.gender)

\* C20: the total of a search response is the number of all records that
\* match the predicates, whatever _count and _offset are.
C20_TotalCountsAllMatches == Searched => sh.response.total = Len(AllMatches)


\* the handler has answered (with a bundle or with an error)
SearchDone == sh.pc = "done"
Query == unwrap(sh.query)
IdRank(id) == CHOOSE i \in 1..Len(IdOrder) : IdOrder[i] = id
Ascending(ids) == \A i, j \in 1..Len(ids) : i < j => IdRank(ids[i]) < IdRank(ids[j])
SeqRange(s) == {s[i] : i \in 1..Len(s)}
\* the ids of the records of a bundle, in the order of its entries
EntryIds(response) == SeqMap(LAMBDA e : unwrap(e.id), response.entry)
\* elements o+1 .. o+c of s, as far as s has them
Window(s, o, c) ==
    LET n == IF Len(s) - o < c THEN Len(s) - o ELSE c
    IN  IF n <= 0 THEN <<>> ELSE SubSeq(s, o + 1, o + n)
\* the page the same request returns at offset o, nothing being written
PageAt(o) == EntryIds(search_response(sh.rows, [sh.params EXCEPT !.offset = Some(o)]))
RECURSIVE ConcatPages(_)
ConcatPages(o) ==
    IF o >= Len(AllMatches) THEN <<>> ELSE PageAt(o) \o ConcatPages(o + Query.count)

\* C21: the page of a search is the window offset .. offset+count-1 of the
\* matches in ascending order of id; the pages at offsets 0, count, 2*count,
\* ... are disjoint and their concatenation is the list of all matches.
C21_PageIsWindowOfMatches ==
    Searched =>
        /\ Ascending(AllMatches)
        /\ EntryIds(sh.response) = Window(AllMatches, Query.offset, Query.count)
        /\ Query.count >= 1 =>
              /\ ConcatPages(0) = AllMatches
              /\ \A o1, o2 \in {k * Query.count : k \in 0..Len(AllMatches)} :
                    o1 # o2 => SeqRange(PageAt(o1)) \cap SeqRange(PageAt(o2)) = {}
C21_Witness ==
    /\ Searched
    /\ sh.params.count = Some(1) /\ sh.params.offset = Some(1)
    /\ sh.params.gender = Some("female")
    /\ Len(AllMatches) = 3
    /\ EntryIds(sh.response) = <<"b">>

\* a query with every predicate but k removed
OnlyPredicate(q, k) ==
    [x \in {"name", "birth_date", "birth_date_ge", "birth_date_le", "gender"} |->
        IF x = k THEN q[x] ELSE None]
Supplied(q) == {k \in {"name", "birth_date", "birth_date_ge", "birth_date_le", "gender"} : is_some(q[k])}
SelectedBy(q) ==
    SeqRange(search_selected(sh.rows, q.name, q.birth_date, q.birth_date_ge, q.birth_date_le,
                             q.gender))
\* s is a substring of text, letter case ignored
ContainsNoCase(text, s) ==
    \E i \in 1..(Len(text) - Len(s) + 1) : Lower(SubSeq(text, i, i + Len(s) - 1)) = Lower(s)
\* s occurs in the family, the text or a given name of some name entry
NameContains(patient, s) ==
    \E i \in 1..Len(NamesOf(patient)) :
        LET n == NamesOf(patient)[i]
        IN  \/ is_some(n.family) /\ ContainsNoCase(unwrap(n.family), s)
            \/ is_some(n.text) /\ ContainsNoCase(unwrap(n.text), s)
            \/ /\ is_some(n.given)
               /\ \E g \in 1..Len(unwrap(n.given)) : ContainsNoCase(unwrap(n.given)[g], s)
\* the record satisfies every predicate of the query
Satisfies(patient, q) ==
    /\ is_some(q.gender) => patient.gender = q.gender
    /\ is_some(q.birth_date) => patient.birth_date = q.birth_date
    /\ is_some(q.birth_date_ge) =>
          is_some(patient.birth_date) /\ ~TextLess(unwrap(patient.birth_date), unwrap(q.birth_date_ge))
    /\ is_some(q.birth_date_le) =>
          is_some(patient.birth_date) /\ ~TextLess(unwrap(q.birth_date_le), unwrap(patient.birth_date))
    /\ is_some(q.name) => NameContains(patient, unwrap(q.name))

C23_InvalidRangeRejected ==
    (/\ SearchDone
     /\ is_some(sh.params.birth_date_ge) /\ is_some(sh.params.birth_date_le)
     /\ TextLess(unwrap(sh.params.birth_date_le), unwrap(sh.params.birth_date_ge)))
    => sh.response.status = 400 /\ is_none(sh.query)

\* C24: with the name as the only predicate, the records selected are exactly
\* those with the name in the family, the text or a given name of some name
\* entry.
C24_NameMatchesAnyEntry ==
    (Searched /\ Supplied(Query) = {"name"}) =>
        SelectedBy(Query) =
            {id \in DOMAIN sh.rows :
                NameContains(PatientFromValue(sh.rows[id].resource_data).ok, unwrap(Query.name))}

\* C25: a search without predicate selects every record stored, and returns
\* the window of them that _count and _offset ask for.
C25_NoPredicateMatchesAll ==
    (Searched /\ Supplied(Query) = {}) =>
        /\ SeqRange(AllMatches) = DOMAIN sh.rows
        /\ Len(AllMatches) = Cardinality(DOMAIN sh.rows)
        /\ SeqRange(EntryIds(sh.response)) =
              {id \in DOMAIN sh.rows :
                  /\ Cardinality({x \in DOMAIN sh.rows : IdRank(x) < IdRank(id)}) >= Query.offset
                  /\ Cardinality({x \in DOMAIN sh.rows : IdRank(x) < IdRank(id)})
                        < Query.offset + Query.count}
C25_Witness ==
    /\ Searched
    /\ Supplied(Query) = {}
    /\ sh.params.count = None /\ sh.params.offset = None
    /\ \A id \in SearchIds : id \in DOMAIN sh.rows
    /\ sh.rows["b"].resource_data = JonesThenSmith
    /\ sh.rows["c"].resource_data = TextOnly
    /\ Len(sh.response.entry) = 3

\* C26: the database is asked for at most 100 records, for min(_count, 100)
\* when _count is given and for 20 when it is not, from offset 0 when _offset
\* is not given; the bundle never holds more records than that.
C26_PageSizeBounded ==
    SearchDone =>
        /\ Query.count <= 100
        /\ is_some(sh.params.count) =>
              Query.count = (IF unwrap(sh.params.count) < 100 THEN unwrap(sh.params.count) ELSE 100)
        /\ is_none(sh.params.count) => Query.count = 20
        /\ is_none(sh.params.offset) => Query.offset = 0
        /\ is_some(sh.params.offset) => Query.offset = unwrap(sh.params.offset)
        /\ Searched => Len(sh.response.entry) <= Query.count
C26_Witness ==
    /\ Searched
    /\ sh.params.count = Some(101)
    /\ Query.count = 100
    /\ Len(sh.response.entry) = 3


(***************************************************************************)
(* Properties of the history (SpecHistory).                                *)
(***************************************************************************)
\* p takes a GET _history request and answers it in this step
HistoryRead(p) ==
    /\ Free(p) /\ \A q \in Procs_before(p) : ~Free(q)
    /\ calls' = calls + 1
    /\ local'[p].op = "history"
    /\ local'[p].response.status = 200
\* p holds the history bundle it has returned
HistoryReturned(p) ==
    pc[p] = "done" /\ local[p].op = "history" /\ local[p].response.status = 200
ParseVersion(s) == CHOOSE v \in 0..(MaxCalls + MaxHistoryCalls + 1) : ToString(v) = s
EntryMeta(e) == e.resource.obj["meta"].obj
\* the versionIds of the entries of a bundle, in their order
EntryVersions(response) ==
    SeqMap(LAMBDA e : ParseVersion(EntryMeta(e)["versionId"].str), response.entry)
RECURSIVE Descending(_)
Descending(S) ==
    IF S = {} THEN <<>>
    ELSE LET m == CHOOSE x \in S : \A y \in S : y <= x
         IN  <<m>> \o Descending(S \ {m})
\* the versions of id whose history INSERT did not fail
Appended(id) == {v \in 1..VersionOf(id) : <<id, v>> \notin append_errors}

\* C27 as stated: a history read after the create and three updates of a
\* record, every append done and none failed, returns the entries 3, 2, 1.
C27_ThreeUpdatesThreeEntries ==
    [][\A p \in Procs :
          (/\ HistoryRead(p)
           /\ local'[p].id \in DOMAIN fhir_resources
           /\ VersionOf(local'[p].id) = 4
           /\ ~AppendPending(local'[p].id)
           /\ ~AppendFailed(local'[p].id))
          => EntryVersions(local'[p].response) = <<3, 2, 1>>]_vars

\* C27 amended: a history read of a record at version N (created and updated
\* N-1 times), no append pending, returns one entry for each version 1..N
\* whose append did not fail, newest first: after three updates the entries
\* 4, 3, 2, 1.
C27_HistoryListsEveryVersion ==
    [][\A p \in Procs :
          (/\ HistoryRead(p)
           /\ local'[p].id \in DOMAIN fhir_resources
           /\ ~AppendPending(local'[p].id))
          => /\ EntryVersions(local'[p].response) = Descending(Appended(local'[p].id))
             /\ local'[p].response.total = Cardinality(Appended(local'[p].id))]_vars
C27_Witness ==
    \E p \in Procs :
        /\ HistoryReturned(p)
        /\ local[p].id \in DOMAIN fhir_resources
        /\ VersionOf(local[p].id) = 4
        /\ append_errors = {}
        /\ EntryVersions(local[p].response) = <<4, 3, 2, 1>>

\* C28: the versionIds of the entries of a history bundle are strictly
\* decreasing, whatever the order in which the history rows were written.
C28_NewestFirst ==
    \A p \in Procs :
        HistoryReturned(p) =>
            \A i, j \in 1..Len(local[p].response.entry) :
                i < j => EntryVersions(local[p].response)[i] > EntryVersions(local[p].response)[j]
\* the row of version 3 was written before the row of version 2
C28_Witness ==
    \E p \in Procs :
        /\ HistoryReturned(p)
        /\ EntryVersions(local[p].response) = <<3, 2, 1>>
        /\ \E h2, h3 \in HistoryOf(local[p].id) :
              h2.version_id = 2 /\ h3.version_id = 3 /\ h3.ts < h2.ts

\* C29: in a history bundle the entry of version 1 is the row written by the
\* create (status created, request method POST) and every entry of a later
\* version a row written by an update (status updated, method PUT); the
\* snapshot of an entry is the body of its row with the versionId and the
\* timestamp of that row.
C29_EntriesLabelledAndStamped ==
    \A p \in Procs :
        HistoryReturned(p) =>
            \A i \in 1..Len(local[p].response.entry) :
                LET e == local[p].response.entry[i]
                    v == EntryVersions(local[p].response)[i]
                IN  /\ e.request.method = (IF v = 1 THEN "POST" ELSE "PUT")
                    /\ \E h \in HistoryOf(local[p].id) :
                          /\ h.version_id = v
                          /\ h.status = (IF v = 1 THEN "created" ELSE "updated")
                          /\ EntryMeta(e)["lastUpdated"] = Str(to_char(h.ts))
                          /\ e.response.lastModified = to_char(h.ts)
                          /\ MapWithout(e.resource.obj, {"id", "meta"})
                                = MapWithout(h.resource.obj, {"id", "meta"})
\* the record is at version 3 when its entries 2 and 1 are returned
C29_Witness ==
    \E p \in Procs :
        /\ HistoryReturned(p)
        /\ EntryVersions(local[p].response) = <<2, 1>>
        /\ local[p].response.entry[1].request.method = "PUT"
        /\ local[p].response.entry[2].request.method = "POST"
        /\ VersionOf(local[p].id) = 3
        /\ fhir_resources[local[p].id].last_updated \div TicksPerSecond
              > (CHOOSE h \in HistoryOf(local[p].id) : h.version_id = 2).ts \div TicksPerSecond


\* The bundle of handlers::get_patient_history of server/src: its
\* meta.lastUpdated is the timestamp of its first entry, and it has no meta
\* when it has no entry.
HistoryBundleStampedByNewest ==
    \A p \in Procs :
        HistoryReturned(p) =>
            LET b == local[p].response
            IN  IF Len(b.entry) = 0 THEN is_none(b.meta)
                ELSE /\ b.meta = Some([lastUpdated |-> b.entry[1].response.lastModified])
                     /\ EntryMeta(b.entry[1])["lastUpdated"] = Str(unwrap(b.meta).lastUpdated)

ExtHistoryReturned == ext.pc = "done" /\ ext.response.op = "history" /\ ext.response.status = 200

\* C30: the last-updated value of a history bundle is the timestamp of its
\* first entry, and a bundle without entries carries no last-updated value
\* (here on the HistoryBundle returned by the service on the extension).
C30_BundleStampedByNewest ==
    ExtHistoryReturned =>
        LET b == ext.response.bundle
        IN  /\ Len(b.entry) = 0 => "meta" \notin DOMAIN b
            /\ Len(b.entry) > 0 =>
                  b.meta.last_updated = unwrap(b.entry[1].response).last_modified


\* p takes a GET _history request and answers it in this step, with a bundle
\* or with an error
HistoryStep(p) ==
    /\ Free(p) /\ \A q \in Procs_before(p) : ~Free(q)
    /\ calls' = calls + 1
    /\ local'[p].op = "history"
\* the bundle of a record without history
EmptyHistory(response) ==
    /\ response.status = 200
    /\ response.bundle_type = "history"
    /\ response.total = 0
    /\ response.entry = <<>>
    /\ is_none(response.meta)
\* the answer of the handler when the storage fails
StorageError(response) == response = Outcome(500, "processing")

\* C31: the history of a well-formed id that has no history row, an id that
\* was never created included, is a bundle with total 0 and no entries; the
\* handler answers with an error only when the storage fails, never with
\* not-found or a validation error.
C31_NoHistoryIsEmptyBundle ==
    [][\A p \in Procs :
          (HistoryStep(p) /\ IsUuid(local'[p].id) /\ HistoryOf(local'[p].id) = {})
          => \/ EmptyHistory(local'[p].response)
             \/ StorageError(local'[p].response)]_vars
\* the empty bundle is returned for an id that was never created
C31_Witness ==
    \E p \in Procs :
        /\ HistoryReturned(p)
        /\ IsUuid(local[p].id)
        /\ local[p].id \notin DOMAIN fhir_resources
        /\ EmptyHistory(local[p].response)


\* p holds the answer to a GET of one record
GetReturned(p) == pc[p] = "done" /\ local[p].op = "get"
NotFound(response) == response = Outcome(404, "not-found")

\* C32, as claimed: a get with an id that is not well-formed is answered with
\* an outcome of its own, which is neither the not-found outcome of an
\* unknown id nor the outcome of a storage or internal error.
C32_MalformedIdIsValidationError ==
    \A p \in Procs :
        (GetReturned(p) /\ ~IsUuid(local[p].id))
        => /\ ~NotFound(local[p].response)
           /\ ~StorageError(local[p].response)


\* the (body, versionId) pair of a returned Patient is the one of this entry
\* of the database log
ReadsLogged(patient, e) ==
    /\ patient.id = Some(e.id)
    /\ unwrap(patient.meta).version_id = Some(ToString(e.version_id))
    /\ LET stored == PatientFromValue(e.resource_data)
       IN  /\ IsOk(stored)
           /\ [patient EXCEPT !.id = None, !.meta = None]
                = [stored.ok EXCEPT !.id = None, !.meta = None]

\* C33: the Patient a get returns, also while updates of the same id are in
\* flight, carries the body and the versionId that one single successful
\* INSERT or UPDATE of the row committed together.
C33_GetReadsOneCommittedRow ==
    \A p \in Procs :
        (GetReturned(p) /\ local[p].response.status = 200)
        => \E e \in row_log :
              e.id = local[p].id /\ ReadsLogged(local[p].response.patient, e)
\* a get answered between the read and the write of an update of the same id,
\* which has written since
C33_Witness ==
    \E p, q \in Procs :
        /\ GetReturned(p) /\ local[p].response.status = 200
        /\ q # p /\ local[q].op \in {"update", "patch"}
        /\ local[q].id = local[p].id
        /\ Wrote(q)
        /\ Some(ToString(local[q].version_id)) # ReturnedVersion(p)


\* the patch of p starts with a test operation, which ran on the record that
\* the handler read
TestsFirst(p) == local[p].op = "patch" /\ local[p].patch[1].op = "test"
\* the value the stored body of the id has at the path of the test
StoredAt(id, o) == PtrGet(fhir_resources[id].resource_data, o.path)

\* C37, as claimed: when a patch with a test operation writes and is assigned
\* version N+1, the body stored at version N holds the tested value at the
\* tested path, also when another update of the id wrote between the read and
\* the write of the patch.
C37_TestHoldsOnPreviousVersion ==
    [][\A p \in Procs :
          (Updates(p) /\ TestsFirst(p))
          => /\ local'[p].version_id = VersionOf(local[p].id) + 1
             /\ StoredAt(local[p].id, local[p].patch[1]) = Some(local[p].patch[1].value)]_vars


\* p, handling a PUT or a PATCH, takes this step
MutationStep(p) ==
    /\ <<pc[p], local[p]>> # <<pc'[p], local'[p]>>
    /\ local'[p].op \in {"update", "patch"}
\* the row and the history rows of the id are the same after the step
Untouched(id) ==
    /\ (id \in DOMAIN fhir_resources) <=> (id \in DOMAIN fhir_resources')
    /\ id \in DOMAIN fhir_resources => fhir_resources'[id] = fhir_resources[id]
    /\ {h \in patient_history' : h.id = id} = HistoryOf(id)

\* C38: every step of an update or a patch of one id, its read, its UPDATE
\* and its history INSERT, leaves the body, the versionId and the history
\* rows of every other id as they were.
C38_OtherRecordsUntouched ==
    [][\A p \in Procs :
          MutationStep(p)
          => \A B \in Ids \cup {BadId} : B # local'[p].id => Untouched(B)]_vars
\* an update of one record has written its row and its history row while
\* another record is stored
C38_Witness ==
    \E p \in Procs :
        /\ Returned(p, 200) /\ local[p].op \in {"update", "patch"}
        /\ \E h \in HistoryOf(local[p].id) : h.version_id = local[p].version_id
        /\ \E B \in DOMAIN fhir_resources : B # local[p].id


\* p takes a POST request in this step and runs its INSERT
CreateStep(p) ==
    /\ Free(p) /\ \A q \in Procs_before(p) : ~Free(q)
    /\ calls' = calls + 1
    /\ local'[p].op = "create"
\* the INSERT of a create or the UPDATE of an update or patch, run by p in
\* this step, fails: the row is not written
PrimaryWriteFails(p) ==
    /\ CreateStep(p) \/ (pc[p] = "update_write" /\ pc'[p] # pc[p])
    /\ fhir_resources' = fhir_resources

\* C39: when the INSERT of a create or the UPDATE of an update fails, the
\* call ends in that step with the storage error, no version is assigned, no
\* history row is appended and the stored rows, the body and versionId of the
\* updated record included, are the same as before.
C39_FailedWriteLeavesNoTrace ==
    [][\A p \in Procs :
          PrimaryWriteFails(p)
          => /\ pc'[p] = "done"
             /\ StorageError(local'[p].response)
             /\ ~Wrote(p)'
             /\ patient_history' = patient_history
             /\ store' = store]_vars
\* a create whose INSERT failed and an update whose UPDATE failed, after its
\* read of the record
C39_Witness ==
    \E p, q \in Procs :
        /\ Returned(p, 500) /\ local[p].op = "create"
        /\ Returned(q, 500) /\ local[q].op \in {"update", "patch"}
        /\ "existing" \in DOMAIN local[q]


\* the bodies the database log holds for version v of the id
WrittenAt(id, v) == {e.resource_data : e \in {x \in row_log : x.id = id /\ x.version_id = v}}

\* C40: every history row (id, v) belongs to a stored record, v lies between
\* 1 and the stored versionId of that record, no other history row has the
\* same (id, v), and its snapshot is the body that the INSERT or UPDATE which
\* was assigned version v wrote to the row of fhir_resources.
C40_HistoryRowsWellFormed ==
    \A h \in patient_history :
        /\ Exists(h.id)
        /\ 1 <= h.version_id /\ h.version_id <= VersionOf(h.id)
        /\ \A g \in patient_history : (g.id = h.id /\ g.version_id = h.version_id) => g = h
        /\ WrittenAt(h.id, h.version_id) = {h.resource}
\* a record with the history rows of its create and of an update, whose
\* bodies differ
C40_Witness ==
    \E h, g \in patient_history :
        /\ h.id = g.id
        /\ h.version_id = 1 /\ g.version_id = 2
        /\ h.resource # g.resource
        /\ VersionOf(h.id) = 2


(***************************************************************************)
(* Properties of the search of the service on the extension (SpecExt).     *)
(***************************************************************************)
ExtSearched == ext.pc = "done" /\ ext.response.op = "search" /\ ext.response.status = 200
\* the ids of the records of the bundle returned
ExtReturnedIds ==
    {Index(ext.response.bundle.entry[i].resource, "id").str :
        i \in 1..Len(ext.response.bundle.entry)}
\* the ids fhir_search returns for a parameter of the request
ExtFound(param, value) == fhir_search(ext.resources, param, unwrap(value))
\* the ids returned by the search of every parameter that was supplied
ExtFoundByAll(query) ==
    {id \in DOMAIN ext.resources :
        /\ is_some(query.name) => id \in ExtFound("name", query.name)
        /\ is_some(query.gender) => id \in ExtFound("gender", query.gender)
        /\ is_some(query.birthdate) => id \in ExtFound("birthDate", query.birthdate)}

\* C34, as claimed: the records PatientRepository::search returns are among
\* those whose id the search of every supplied parameter returned; when the
\* name search returns no id and a gender is supplied, no record is returned.
C34_SearchIntersects ==
    ExtSearched
    => /\ ExtReturnedIds \subseteq ExtFoundByAll(ext.response.query)
       /\ (/\ is_some(ext.response.query.name)
           /\ ExtFound("name", ext.response.query.name) = {}
           /\ is_some(ext.response.query.gender))
          => ext.response.bundle.total = 0


(***************************************************************************)
(* finder-files-organizer: FileOrganizer::organize on one directory.       *)
(* fo.root is the directory, name -> "file" or "dir"; fo.folders holds the *)
(* names inside each of its subdirectories; fo.entries is what the         *)
(* read_dir iterator has still to yield; fo.start is the directory as it   *)
(* was when organize was called.                                           *)
(***************************************************************************)
\* position of the last '.' of the name at or before i, 0 when there is none
RECURSIVE rfind_dot(_, _)
rfind_dot(name, i) ==
    IF i = 0 THEN 0
    ELSE IF SubSeq(name, i, i) = "." THEN i
    ELSE rfind_dot(name, i - 1)

\* Path::extension: the part after the last '.', None when the name has no
\* '.' or only a leading one
extension(name) ==
    LET dot == rfind_dot(name, Len(name))
    IN  IF dot <= 1 THEN None ELSE Some(SubSeq(name, dot + 1, Len(name)))

\* Path::file_stem: the name without its extension
file_stem(name) ==
    LET dot == rfind_dot(name, Len(name))
    IN  IF dot <= 1 THEN name ELSE SubSeq(name, 1, dot - 1)

\* for i in 1..10000
UniqueAttempts == 10000

\* format!("{} ({}).{}", stem, i, extension), or "{} ({})" without extension
new_name(original_name, i) ==
    LET stem == file_stem(original_name)
        suffix == unwrap_or(extension(original_name), "")
    IN  IF suffix = "" THEN stem \o " (" \o ToString(i) \o ")"
        ELSE stem \o " (" \o ToString(i) \o ")." \o suffix

\* the loop of get_unique_filename from counter i on
RECURSIVE unique_from(_, _, _)
unique_from(contents, original_name, i) ==
    IF i >= UniqueAttempts THEN Err("Could not generate unique filename")
    ELSE IF new_name(original_name, i) \notin contents THEN Ok(new_name(original_name, i))
    ELSE unique_from(contents, original_name, i + 1)

\* FileOrganizer::get_unique_filename in a folder with these names
get_unique_filename(contents, original_name) == unique_from(contents, original_name, 1)

\* Mutation: the file is moved under its own name whether that exists or not.
destination_unchecked(contents, filename) == Ok(filename)

\* extension_dir.join(&filename), replaced by a unique name when it exists
destination(contents, filename) ==
    IF filename \in contents THEN get_unique_filename(contents, filename) ELSE Ok(filename)

\* The directories organize is run on: files with an extension (one of them
\* in upper case, one named like a unique name), a file without extension, a
\* file named like an extension folder, and the folders sub and txt, txt with
\* files that collide.
OrganizeFiles == {"a.txt", "a (1).txt", "b.TXT", "c.md", "noext", "txt"}
OrganizeFolders ==
    {[n \in D |-> IF n = "sub" THEN {"nested.txt"} ELSE c] :
        D \in SUBSET {"sub", "txt"}, c \in SUBSET {"a.txt", "a (1).txt"}}
Directory(files, folders) ==
    [root |-> [n \in files \cup DOMAIN folders |-> IF n \in files THEN "file" ELSE "dir"],
     folders |-> folders]
\* a name is a file or a folder of the directory, not both
OrganizeDirectories ==
    {Directory(d[1], d[2]) :
        d \in {x \in (SUBSET OrganizeFiles) \X OrganizeFolders : DOMAIN x[2] \cap x[1] = {}}}
NoDirectory == [root |-> EmptyMap, folders |-> EmptyMap]

\* organize has returned
Finish(f, result) == [f EXCEPT !.pc = "done", !.entries = {}, !.result = Some(result)]
\* the loop goes on with the entries left, or ends with Ok((files_moved,
\* files_skipped))
Continue(f, entries) ==
    IF entries = {} THEN Finish(f, Ok(<<f.files_moved, f.files_skipped>>))
    ELSE [f EXCEPT !.entries = entries]

\* The checks of the path and fs::read_dir: the iterator will yield the
\* entries of the directory.
Organize ==
    /\ fo.pc = "call"
    /\ \/ /\ fo.path = "missing"
          /\ fo' = Finish(fo, Err("doesn't exist"))
       \/ /\ fo.path = "file"
          /\ fo' = Finish(fo, Err("is not a directory"))
       \/ /\ fo.path = "dir"
          /\ \/ fo' = Finish(fo, Err("Error opening directory"))
             \/ fo' = Continue([fo EXCEPT !.pc = "loop"], DOMAIN fo.root)
    /\ UNCHANGED <<store, pc, local, calls, mh, ext, sh, append_errors, budget>>

\* One turn of `for entry in entries`, for any entry that is left: a
\* directory or a file without extension is skipped; else the extension
\* folder is created if it does not exist and the file is renamed into it.
\* Whether the iterator later yields a folder created during the loop is not
\* specified by readdir.  A failed create_dir or rename ends organize.
OrganizeEntry ==
    /\ fo.pc = "loop"
    /\ \E filename \in fo.entries :
          LET rest == fo.entries \ {filename}
              suffix == extension(filename)
          IN  IF fo.root[filename] = "dir" \/ is_none(suffix)
              THEN fo' = Continue([fo EXCEPT !.files_skipped = @ + 1], rest)
              ELSE LET extension_dir == Lower(unwrap(suffix))
                       created == extension_dir \notin DOMAIN fo.root
                       made == IF created
                               THEN [fo EXCEPT
                                       !.root = MapInsert(fo.root, extension_dir, "dir"),
                                       !.folders = MapInsert(fo.folders, extension_dir, {})]
                               ELSE fo
                   IN  \/ /\ created
                          /\ fo' = Finish(fo, Err("Error creating directory"))
                       \/ fo' = Finish(made, Err("Error moving"))
                       \/ /\ made.root[extension_dir] = "dir"
                          /\ LET contents == made.folders[extension_dir]
                                 to == destination(contents, filename)
                             IN  IF IsErr(to) THEN fo' = Finish(made, to)
                                 ELSE \E yielded \in IF created THEN {{}, {extension_dir}}
                                                      ELSE {{}} :
                                         fo' = Continue(
                                             [made EXCEPT
                                                !.root = MapRemove(made.root, filename),
                                                !.folders = MapInsert(made.folders, extension_dir,
                                                                       contents \cup {to.ok}),
                                                !.files_moved = @ + 1],
                                             rest \cup yielded)
    /\ UNCHANGED <<store, pc, local, calls, mh, ext, sh, append_errors, budget>>

InitOrganize ==
    /\ fhir_resources = EmptyMap
    /\ patient_history = {}
    /\ row_log = {}
    /\ clock = 0
    /\ pc = [p \in Procs |-> "idle"]
    /\ local = [p \in Procs |-> NoLocal]
    /\ calls = 0
    /\ budget = 0
    /\ append_errors = {}
    /\ mh = NoMerge
    /\ ext = NoExt
    /\ sh = NoSearch
    /\ \E path \in {"dir", "file", "missing"} :
       \E directory \in IF path = "dir"
                        THEN OrganizeDirectories ELSE {NoDirectory} :
          fo = [pc |-> "call", path |-> path, root |-> directory.root,
                folders |-> directory.folders, start |-> directory, entries |-> {},
                files_moved |-> 0, files_skipped |-> 0, result |-> None]

NextOrganize ==
    \/ Organize
    \/ OrganizeEntry

SpecOrganize == InitOrganize /\ [][NextOrganize]_vars


(***************************************************************************)
(* Properties of organize (SpecOrganize).                                  *)
(***************************************************************************)
\* organize has returned Ok((files_moved, files_skipped))
OrganizeReturned == fo.pc = "done" /\ is_some(fo.result) /\ IsOk(unwrap(fo.result))
\* the directory when organize was called: its regular files with an
\* extension, and its subdirectories and files without extension
StartWithExtension ==
    {n \in DOMAIN fo.start.root : fo.start.root[n] = "file" /\ is_some(extension(n))}
StartSkipped == DOMAIN fo.start.root \ StartWithExtension

\* C35, as claimed: organize returns (moved, skipped) with moved the number
\* of regular files with an extension and skipped the number of
\* subdirectories and files without extension that the directory held when
\* the call started, in whatever order the entries are yielded while
\* extension folders are created.
C35_CountsDirectoryAtStart ==
    OrganizeReturned
    => unwrap(fo.result).ok = <<Cardinality(StartWithExtension), Cardinality(StartSkipped)>>

\* What does hold: every file with an extension is moved, and nothing that
\* was in the directory at the start is left uncounted.
OrganizeCountsAtLeastStart ==
    OrganizeReturned
    => /\ unwrap(fo.result).ok[1] = Cardinality(StartWithExtension)
       /\ unwrap(fo.result).ok[2] >= Cardinality(StartSkipped)


\* the number of regular files in a directory and in its folders
RECURSIVE FilesInFolders(_, _)
FilesInFolders(folders, names) ==
    IF names = {} THEN 0
    ELSE LET n == CHOOSE x \in names : TRUE
         IN  Cardinality(folders[n]) + FilesInFolders(folders, names \ {n})
FileCount(d) ==
    Cardinality({n \in DOMAIN d.root : d.root[n] = "file"})
    + FilesInFolders(d.folders, DOMAIN d.folders)
\* the names in a folder, none when the folder does not exist
FolderContents(d, folder) == IF folder \in DOMAIN d.folders THEN d.folders[folder] ELSE {}
\* the file this step renames into its extension folder
MovedFile == CHOOSE n \in DOMAIN fo.root : n \notin DOMAIN fo'.root
MovedInto == Lower(unwrap(extension(MovedFile)))
\* `to` is the unique name of the file for the smallest counter that is free
\* in the folder
SmallestFree(to, filename, contents) ==
    \E i \in 1..(Cardinality(contents) + 1) :
        /\ to = new_name(filename, i)
        /\ \A j \in 1..(i - 1) : new_name(filename, j) \in contents

\* C36: organize never overwrites a file.  Every step of the loop keeps every
\* name that is in a folder; a file that is moved arrives under a name that
\* was free: its own, or, when that exists in the extension folder,
\* `stem (i).ext` for the smallest i >= 1 that does not exist.  The number of
\* regular files under the directory stays the one at the start of the call.
C36_NeverOverwrites ==
    [][fo.pc = "loop"
       => /\ FileCount(fo') = FileCount(fo.start)
          /\ \A d \in DOMAIN fo.folders : fo.folders[d] \subseteq fo'.folders[d]
          /\ fo'.files_moved # fo.files_moved
             => LET before == FolderContents(fo, MovedInto)
                    arrived == fo'.folders[MovedInto] \ before
                IN  /\ Cardinality(arrived) = 1
                    /\ \A to \in arrived :
                          IF MovedFile \in before THEN SmallestFree(to, MovedFile, before)
                          ELSE to = MovedFile]_vars
\* a.txt was moved into a folder that held a.txt and a (1).txt
C36_Witness ==
    /\ OrganizeReturned
    /\ "a.txt" \in DOMAIN fo.start.root
    /\ {"a.txt", "a (1).txt"} \subseteq FolderContents(fo.start, "txt")
    /\ FolderContents(fo, "txt") = {"a.txt", "a (1).txt", "a (2).txt"}

====
